---- MODULE Spec2Model ----
(***************************************************************************)
(* A model of the Glow normalizing flow of model.py and of the             *)
(* discriminator rejection sampler of generate.py.                         *)
(*                                                                         *)
(* Tensors are records [kind, shape, data]: shape is the size tuple and    *)
(* data the elements in row-major (contiguous) order.  A Python exception  *)
(* is the tensor Err, which every operation propagates; Python's None is   *)
(* the value None.  A tensor of kind "meta" has a shape and no elements    *)
(* (torch's meta device): operations on it compute shapes only.            *)
(***************************************************************************)
EXTENDS Integers, Sequences, FiniteSets, TLC

VARIABLES
  sq_pc, sq_rev, sq_x, sq_y, sq_z,          \* the squeeze harness
  an_self, an_x, an_ldj, an_ret, an_calls, an_first,  \* one ActNorm layer
  gl_model, gl_pc, gl_fn, gl_in, gl_out, gl_back,      \* a Glow model
  fs_self, fs_pc, fs_in, fs_out,            \* one flow step
  cp_self, cp_pc, cp_in, cp_out,            \* one coupling layer
  dr_pc, dr_M, dr_idx, dr_n_samples, dr_pq, dr_p_accept, dr_accepted,
  dr_seen, dr_saved,                        \* the sampling session
  dr_args, dr_rate,                         \* its arguments, its report
  dr_tr                                     \* the steps of its last proposal

sq_vars == <<sq_pc, sq_rev, sq_x, sq_y, sq_z>>

an_vars == <<an_self, an_x, an_ldj, an_ret, an_calls, an_first>>

gl_vars == <<gl_model, gl_pc, gl_fn, gl_in, gl_out, gl_back>>

fs_vars == <<fs_self, fs_pc, fs_in, fs_out>>

cp_vars == <<cp_self, cp_pc, cp_in, cp_out>>

dr_vars == <<dr_pc, dr_M, dr_idx, dr_n_samples, dr_pq, dr_p_accept, dr_accepted,
             dr_seen, dr_saved, dr_args, dr_rate, dr_tr>>

vars == <<sq_vars, an_vars, gl_vars, fs_vars, cp_vars, dr_vars>>

(***************************************************************************)
(* Bounds of the model.                                                    *)
(***************************************************************************)
MaxBatch == 2
MaxChan == 4
MaxSide == 4
MaxSeed == 2
MaxCalls == 3
MaxLevels == 3
MaxSteps == 1
MaxValSide == 8
MidChannels == 1

(***************************************************************************)
(* Tensors.                                                                *)
(***************************************************************************)
None == [kind |-> "none", shape |-> <<>>, data |-> <<>>]

Err == [kind |-> "error", shape |-> <<>>, data |-> <<>>]

\* the elements are held as a tuple (data \o <<>> is data, enumerated)
Tensor(shape, data) ==
  [kind |-> "tensor", shape |-> shape \o <<>>, data |-> data \o <<>>]

IsErr(x) == x.kind = "error"

IsNone(x) == x.kind = "none"

Meta(shape) == [kind |-> "meta", shape |-> shape \o <<>>, data |-> <<>>]

IsMeta(x) == x.kind = "meta"

RECURSIVE ProdFrom(_, _)
ProdFrom(s, i) == IF i > Len(s) THEN 1 ELSE s[i] * ProdFrom(s, i + 1)

\* number of elements of a tensor of this shape
Numel(shape) == ProdFrom(shape, 1)

\* row-major strides of a contiguous tensor of this shape
Strides(shape) == [i \in 1..Len(shape) |-> ProdFrom(shape, i + 1)] \o <<>>

\* x.view(shape): same storage, new shape; an error when the sizes differ
View(x, shape) ==
  IF IsErr(x) THEN Err
  ELSE IF Numel(shape) # Numel(x.shape) THEN Err
  ELSE [x EXCEPT !.shape = shape]

RECURSIVE DotFrom(_, _, _, _, _, _)
\* offset in the permuted storage of the element at row-major position k0 of
\* a tensor of this shape (strides new): index i moves by stride st[perm[i]]
DotFrom(k0, shape, new, st, perm, i) ==
  IF i > Len(shape) THEN 0
  ELSE ((k0 \div new[i]) % shape[i]) * st[perm[i] + 1]
       + DotFrom(k0, shape, new, st, perm, i + 1)

\* x.permute(perm).contiguous(): dimension i of the result is dimension
\* perm[i] of x, and the elements are laid out again in row-major order
Permute(x, perm) ==
  IF IsErr(x) THEN Err
  ELSE
    LET Gather(shape, new, old, data) ==
          [k \in 1..Len(data) |->
            data[DotFrom(k - 1, shape, new, old, perm, 1) + 1]]
        Laid(shape) ==
          IF IsMeta(x) THEN Meta(shape)
          ELSE Tensor(shape, Gather(shape, Strides(shape), Strides(x.shape), x.data))
    IN Laid([i \in 1..Len(perm) |-> x.shape[perm[i] + 1]] \o <<>>)

\* a faulty squeeze: the reverse permutation swaps the two block offsets
squeeze_swapped(x, reverse) ==
  IF IsErr(x) THEN Err
  ELSE
    LET b == x.shape[1]
        c == x.shape[2]
        h == x.shape[3]
        w == x.shape[4]
    IN IF reverse
       THEN View(Permute(View(x, <<b, c \div 4, 2, 2, h, w>>),
                         <<0, 1, 4, 3, 5, 2>>),
                 <<b, c \div 4, h * 2, w * 2>>)
       ELSE View(Permute(View(x, <<b, c, h \div 2, 2, w \div 2, 2>>),
                         <<0, 1, 3, 5, 2, 4>>),
                 <<b, c * 2 * 2, h \div 2, w \div 2>>)

\* model.py squeeze(x, reverse)
squeeze(x, reverse) ==
  IF IsErr(x) THEN Err
  ELSE
    LET b == x.shape[1]
        c == x.shape[2]
        h == x.shape[3]
        w == x.shape[4]
    IN IF reverse
       THEN View(Permute(View(x, <<b, c \div 4, 2, 2, h, w>>),
                         <<0, 1, 4, 2, 5, 3>>),
                 <<b, c \div 4, h * 2, w * 2>>)
       ELSE View(Permute(View(x, <<b, c, h \div 2, 2, w \div 2, 2>>),
                         <<0, 1, 3, 5, 2, 4>>),
                 <<b, c * 2 * 2, h \div 2, w \div 2>>)

(***************************************************************************)
(* Numbers.  The layers compute in real arithmetic; the model computes in  *)
(* the field of residues Val, where every affine map and every matrix the  *)
(* layers invert has an exact inverse.  Log-domain quantities (logs, s,    *)
(* log-determinants) are integers, and Exp is the homomorphism from their  *)
(* sums to products of residues: Exp(a + b) = Exp(a) * Exp(b).             *)
(***************************************************************************)
Val == 0 .. 4

P == Cardinality(Val)

Add(a, b) == (a + b) % P

Sub(a, b) == (a - b) % P

Mul(a, b) == (a * b) % P

Neg(a) == (0 - a) % P

\* 1 / a, for a nonzero
Inv(a) == CHOOSE u \in Val : (u * a) % P = 1

RECURSIVE Pow(_, _)
Pow(a, n) == IF n = 0 THEN 1 ELSE (a * Pow(a, n - 1)) % P

\* exp of a log-domain integer (2 generates the nonzero residues)
Exp(n) == Pow(2, n % (P - 1))

\* log of a nonzero residue
Log(a) == CHOOSE n \in 0 .. (P - 2) : Exp(n) = a

\* a residue for a quantity the reals keep positive: never zero
Positive(v) == IF v = 0 THEN 1 ELSE v

\* sqrt(v) + eps
SqrtEps(v) == Positive(v)

\* the signed reading of a residue: the upper half of Val is negative
Signed(a) == IF 2 * a < P THEN a ELSE a - P

Relu(a) == IF Signed(a) > 0 THEN a ELSE 0

\* a faulty tanh: the sign of a, 1 at 0
Tanh_sign(a) == IF Signed(a) >= 0 THEN 1 ELSE 0 - 1

\* tanh: odd, bounded by 1, zero at zero; its value is a log-domain integer
Tanh(a) == IF a = 0 THEN 0 ELSE IF Signed(a) > 0 THEN 1 ELSE 0 - 1

IAdd(a, b) == a + b

ISub(a, b) == a - b

IMul(a, b) == a * b

(***************************************************************************)
(* Elementwise operations with broadcasting.                               *)
(***************************************************************************)
\* a shape padded on the left with ones to rank r
PadShape(s, r) ==
  [i \in 1..r |-> IF i <= r - Len(s) THEN 1 ELSE s[i - (r - Len(s))]] \o <<>>

Max(a, b) == IF a >= b THEN a ELSE b

RECURSIVE BIndexFrom(_, _, _, _, _, _)
\* offset, in a tensor of (padded) shape s and strides sst, of the element that
\* broadcasts to row-major position k0 of the result (shape, strides st): a
\* dimension of size one always reads index 0
BIndexFrom(k0, shape, st, s, sst, i) ==
  IF i > Len(shape) THEN 0
  ELSE (IF s[i] = 1 THEN 0 ELSE ((k0 \div st[i]) % shape[i]) * sst[i])
       + BIndexFrom(k0, shape, st, s, sst, i + 1)

\* the elements of Op(a, b): da, db read at the strides of the padded shapes
BElements(Op(_, _), da, db, shape, st, sa, sta, sb, stb) ==
  IF sa = sb THEN [k \in 1..Len(da) |-> Op(da[k], db[k])]
  ELSE IF Len(db) = 1 THEN [k \in 1..Len(da) |-> Op(da[k], db[1])]
  ELSE [k \in 1..Numel(shape) |->
         Op(da[BIndexFrom(k - 1, shape, st, sa, sta, 1) + 1],
            db[BIndexFrom(k - 1, shape, st, sb, stb, 1) + 1])]

\* the operands' shapes sa, sb at one rank, and the shape they broadcast to
BShaped(Op(_, _), a, b, sa, sb, shape) ==
  IF \E i \in 1..Len(sa) : sa[i] # sb[i] /\ sa[i] # 1 /\ sb[i] # 1 THEN Err
  ELSE IF IsMeta(a) \/ IsMeta(b) THEN Meta(shape)
  ELSE Tensor(shape, BElements(Op, a.data, b.data, shape, Strides(shape),
                               sa, Strides(sa), sb, Strides(sb)))

BPadded(Op(_, _), a, b, sa, sb) ==
  BShaped(Op, a, b, sa, sb,
          [i \in 1..Len(sa) |-> IF sa[i] = 1 THEN sb[i] ELSE sa[i]] \o <<>>)

\* Op(a, b) elementwise, under torch's broadcasting rule
BOp(Op(_, _), a, b) ==
  IF IsErr(a) \/ IsErr(b) THEN Err
  ELSE BPadded(Op, a, b,
               PadShape(a.shape, Max(Len(a.shape), Len(b.shape))),
               PadShape(b.shape, Max(Len(a.shape), Len(b.shape))))

\* F applied to every element
Map(F(_), x) ==
  IF IsErr(x) \/ IsMeta(x) THEN x
  ELSE Tensor(x.shape, [k \in 1..Len(x.data) |-> F(x.data[k])])

\* a zero-dimensional tensor
Scalar(v) == Tensor(<<>>, <<v>>)

RECURSIVE SumAlong(_, _, _, _)
\* the sum of n elements of data, from offset k0 in steps of st (by halves)
SumAlong(data, k0, st, n) ==
  IF n = 0 THEN 0
  ELSE IF n = 1 THEN data[k0 + 1]
  ELSE SumAlong(data, k0, st, n \div 2)
       + SumAlong(data, k0 + (n \div 2) * st, st, n - (n \div 2))

SumFrom(d, i) == SumAlong(d, i - 1, 1, Len(d) - (i - 1))

\* x.sum(), for log-domain tensors: a zero-dimensional tensor
ISum(x) == IF IsMeta(x) THEN Meta(<<>>) ELSE Scalar(SumFrom(x.data, 1))

\* tensor.mean(dim=d, keepdim=True) over residues
MeanKeep(x, d) ==
  LET Means(shape, new, old, data, n, inv, ident) ==
        [k \in 1..Numel(shape) |->
          Mul(SumAlong(data, DotFrom(k - 1, shape, new, old, ident, 1),
                       old[d + 1], n) % P, inv)]
      Reduced(shape, n) ==
        IF IsMeta(x) THEN Meta(shape)
        ELSE Tensor(shape, Means(shape, Strides(shape), Strides(x.shape), x.data,
                                 n, Inv(n % P),
                                 [i \in 1..Len(shape) |-> i - 1] \o <<>>))
  IN Reduced([x.shape EXCEPT ![d + 1] = 1], x.shape[d + 1])

RECURSIVE MeanOver(_, _, _)
MeanOver(x, dims, i) ==
  IF i > Len(dims) THEN x ELSE MeanOver(MeanKeep(x, dims[i]), dims, i + 1)

\* model.py mean_dim(tensor, dim, keepdims=True), dim a sorted list
mean_dim(x, dim) == IF IsErr(x) THEN Err ELSE MeanOver(x, dim, 1)

(***************************************************************************)
(* ActNorm.  A module is a record of its attributes; a call returns the    *)
(* module as the call leaves it (self) and the value returned (ret).       *)
(***************************************************************************)
\* a Python tuple (x, ldj)
Pair(x, ldj) == [kind |-> "tuple", x |-> x, ldj |-> ldj]

Zeros(shape) == Tensor(shape, [k \in 1..Numel(shape) |-> 0])

Ones(shape) == Tensor(shape, [k \in 1..Numel(shape) |-> 1])

\* ActNorm.__init__; nn.Module starts in training mode
ActNorm(num_features, return_ldj) ==
  [kind |-> "ActNorm",
   training |-> TRUE,
   is_initialized |-> 0,
   bias |-> Zeros(<<1, num_features, 1, 1>>),
   logs |-> Zeros(<<1, num_features, 1, 1>>),
   num_features |-> num_features,
   scale |-> 1,
   return_ldj |-> return_ldj]

Square(a) == Mul(a, a)

\* self.scale / (v.sqrt() + self.eps), then .log()
LogScaleOver(self, v) ==
  Map(Log, Map(LAMBDA a : Mul(self.scale, Inv(SqrtEps(a))), v))

\* a faulty initialize_parameters: the training mode is not looked at
initialize_parameters_any_mode(self, x) ==
  LET bias == Map(Neg, mean_dim(x, <<0, 2, 3>>))
      v == mean_dim(Map(Square, BOp(Add, x, bias)), <<0, 2, 3>>)
      logs == LogScaleOver(self, v)
  IN [self EXCEPT !.bias = bias,
                  !.logs = logs,
                  !.is_initialized = self.is_initialized + 1]

\* ActNorm.initialize_parameters
initialize_parameters(self, x) ==
  IF ~self.training THEN self
  ELSE
    LET Copy(bias, logs) ==
          [self EXCEPT !.bias = bias,
                       !.logs = logs,
                       !.is_initialized = self.is_initialized + 1]
        Centred(bias) ==
          Copy(bias, LogScaleOver(self, mean_dim(Map(Square, BOp(Add, x, bias)),
                                                 <<0, 2, 3>>)))
    IN Centred(Map(Neg, mean_dim(x, <<0, 2, 3>>)))

\* ActNorm._center
ActNorm_center(self, x, reverse) ==
  IF reverse THEN BOp(Sub, x, self.bias) ELSE BOp(Add, x, self.bias)

\* if reverse: sldj = sldj - ldj, else: sldj = sldj + ldj
Accumulate(sldj, ldj, reverse) ==
  IF reverse THEN BOp(ISub, sldj, ldj) ELSE BOp(IAdd, sldj, ldj)

\* ActNorm._scale after x is scaled: ldj = logs.sum() * x.size(2) * x.size(3)
ActNorm_sldj(self, x, sldj, reverse) ==
  IF IsErr(x) THEN Pair(Err, sldj)
  ELSE IF ~IsNone(sldj)
  THEN Pair(x, Accumulate(sldj,
                          BOp(IMul, BOp(IMul, ISum(self.logs), Scalar(x.shape[3])),
                              Scalar(x.shape[4])),
                          reverse))
  ELSE Pair(x, sldj)

\* ActNorm._scale: returns (x, sldj)
ActNorm_scale(self, x, sldj, reverse) ==
  ActNorm_sldj(self,
               BOp(Mul, x, Map(Exp, IF reverse
                                    THEN Map(LAMBDA a : 0 - a, self.logs)
                                    ELSE self.logs)),
               sldj, reverse)

\* a faulty ActNorm.forward: what is returned depends on ldj, not on
\* return_ldj
ActNorm_forward_by_ldj(self, x, ldj, reverse) ==
  IF IsErr(x) THEN [self |-> self, ret |-> Pair(Err, Err)] ELSE
  LET self1 == IF self.is_initialized = 0
               THEN initialize_parameters(self, x)
               ELSE self
      r == IF reverse
           THEN LET s == ActNorm_scale(self1, x, ldj, reverse)
                IN Pair(ActNorm_center(self1, s.x, reverse), s.ldj)
           ELSE ActNorm_scale(self1, ActNorm_center(self1, x, reverse),
                              ldj, reverse)
  IN [self |-> self1,
      ret |-> IF ~IsNone(ldj) THEN r ELSE r.x]

\* ActNorm.forward once the parameters are set: center and scale, in the
\* order of the direction
ActNorm_apply(self, x, ldj, reverse) ==
  [self |-> self,
   ret |-> IF reverse
           THEN [ActNorm_scale(self, x, ldj, reverse)
                   EXCEPT !.x = ActNorm_center(self, @, reverse)]
           ELSE ActNorm_scale(self, ActNorm_center(self, x, reverse), ldj, reverse)]

\* ActNorm.forward: the layer after the call, and what the call returns
ActNorm_forward(self, x, ldj, reverse) ==
  IF IsErr(x) THEN [self |-> self, ret |-> Pair(Err, Err)] ELSE
  [ActNorm_apply(IF self.is_initialized = 0
                 THEN initialize_parameters(self, x)
                 ELSE self,
                 x, ldj, reverse)
     EXCEPT !.ret = IF self.return_ldj THEN @ ELSE @.x]

(***************************************************************************)
(* Slicing, concatenation, reductions and convolution.                     *)
(***************************************************************************)
\* x[:, start::step, ...] of a 4-d tensor: count channels
SliceCh(x, start, step, count) ==
  IF IsErr(x) THEN Err
  ELSE
    LET c == x.shape[2]
        hw == x.shape[3] * x.shape[4]
        shape == <<x.shape[1], count, x.shape[3], x.shape[4]>>
    IN IF IsMeta(x) THEN Meta(shape) ELSE
       Tensor(shape,
         [k \in 1..Numel(shape) |->
           LET b == (k - 1) \div (count * hw)
               j == ((k - 1) \div hw) % count
               r == (k - 1) % hw
           IN x.data[(b * c + start + j * step) * hw + r + 1]])

CeilHalf(n) == (n + 1) \div 2

\* x.chunk(2, dim=1): the tuple of chunks, of ceil(C/2) channels each but
\* the last; fewer than two chunks when C < 2
chunk2(x) ==
  LET c == x.shape[2]
      size == CeilHalf(c)
  IN IF c - size > 0
     THEN <<SliceCh(x, 0, 1, size), SliceCh(x, size, 1, c - size)>>
     ELSE <<SliceCh(x, 0, 1, c)>>

\* torch.cat((a, b), dim=1)
cat(a, b) ==
  IF IsErr(a) \/ IsErr(b) THEN Err
  ELSE IF a.shape[1] # b.shape[1] \/ a.shape[3] # b.shape[3]
          \/ a.shape[4] # b.shape[4] THEN Err
  ELSE
    LET ca == a.shape[2]
        cb == b.shape[2]
        hw == a.shape[3] * a.shape[4]
        shape == <<a.shape[1], ca + cb, a.shape[3], a.shape[4]>>
    IN IF IsMeta(a) \/ IsMeta(b) THEN Meta(shape) ELSE
       Tensor(shape,
         [k \in 1..Numel(shape) |->
           LET bi == (k - 1) \div ((ca + cb) * hw)
               j == ((k - 1) \div hw) % (ca + cb)
               r == (k - 1) % hw
           IN IF j < ca THEN a.data[(bi * ca + j) * hw + r + 1]
              ELSE b.data[(bi * cb + (j - ca)) * hw + r + 1]])

\* x.view(x.size(0), -1).sum(1, keepdim=True): shape (B, 1), log-domain
ViewSumKeep(x) ==
  IF IsErr(x) THEN Err
  ELSE
    LET b == x.shape[1]
        n == Numel(x.shape) \div b
    IN IF IsMeta(x) THEN Meta(<<b, 1>>) ELSE
       Tensor(<<b, 1>>, [i \in 1..b |-> SumAlong(x.data, (i - 1) * n, 1, n)])

\* s.flatten(1).sum(-1): shape (B,), log-domain
FlattenSum(x) == View(ViewSumKeep(x), <<x.shape[1]>>)

\* F.conv2d(x, weight, bias, padding=pad) over residues; bias may be None
conv2d(x, weight, bias, pad) ==
  IF IsErr(x) THEN Err
  ELSE IF x.shape[2] # weight.shape[2] THEN Err
  ELSE
    LET ci == x.shape[2]
        h == x.shape[3]
        w == x.shape[4]
        co == weight.shape[1]
        kh == weight.shape[3]
        kw == weight.shape[4]
        ho == h + 2 * pad - kh + 1
        wo == w + 2 * pad - kw + 1
        shape == <<x.shape[1], co, ho, wo>>
        n == ci * kh * kw
    IN IF ho < 1 \/ wo < 1 THEN Err
       ELSE IF IsMeta(x) \/ IsMeta(weight) THEN Meta(shape) ELSE
       Tensor(shape,
         [k \in 1..Numel(shape) |->
           LET b == (k - 1) \div (co * ho * wo)
               o == ((k - 1) \div (ho * wo)) % co
               i == ((k - 1) \div wo) % ho
               j == (k - 1) % wo
               terms == [t \in 1..n |->
                 LET c == (t - 1) \div (kh * kw)
                     y == i + (((t - 1) \div kw) % kh) - pad
                     z == j + ((t - 1) % kw) - pad
                 IN IF y < 0 \/ y >= h \/ z < 0 \/ z >= w THEN 0
                    ELSE weight.data[o * n + t]
                         * x.data[((b * ci + c) * h + y) * w + z + 1]]
           IN (SumFrom(terms \o <<>>, 1) + (IF IsNone(bias) THEN 0 ELSE bias.data[o + 1]))
              % P])

(***************************************************************************)
(* Matrices over residues, as tuples of rows: Gauss-Jordan elimination.    *)
(***************************************************************************)
RECURSIVE Eliminate(_, _, _, _)
\* rows holds n rows; the columns below c are already reduced.  Returns
\* [aug, det], aug = <<>> when the matrix is singular.
Eliminate(rows, n, c, det) ==
  IF c > n THEN [aug |-> rows, det |-> det]
  ELSE
    LET cand == {r \in c..n : rows[r][c] # 0}
    IN IF cand = {} THEN [aug |-> <<>>, det |-> 0]
       ELSE
         LET r == CHOOSE q \in cand : \A q2 \in cand : q <= q2
             Row(i) == rows[IF i = c THEN r ELSE IF i = r THEN c ELSE i]
             top == Row(c)
             pivot == top[c]
             f == Inv(pivot)
             rowc == [j \in 1..Len(top) |-> Mul(f, top[j])] \o <<>>
             next == [i \in 1..n |->
                       IF i = c THEN rowc
                       ELSE LET ri == Row(i)
                                g == ri[c]
                            IN IF g = 0 THEN ri
                               ELSE [j \in 1..Len(ri) |->
                                      Sub(ri[j], Mul(g, rowc[j]))] \o <<>>] \o <<>>
         IN Eliminate(next, n, c + 1,
                      Mul(det, IF r = c THEN pivot ELSE Neg(pivot)))

\* the rows of the square matrix w, each followed by cols - n columns of
\* the identity
Rows(w, cols) ==
  LET n == w.shape[1]
  IN [i \in 1..n |->
       [j \in 1..cols |-> IF j <= n THEN w.data[(i - 1) * n + j]
                          ELSE IF j - n = i THEN 1 ELSE 0] \o <<>>] \o <<>>

\* [w | I] reduced to [I | inverse of w]
GaussJordan(w) == Eliminate(Rows(w, 2 * w.shape[1]), w.shape[1], 1, 1)

\* torch.inverse(w): an error when w is singular
inverse(w) ==
  IF IsMeta(w) THEN w
  ELSE
    LET Right(g, n) ==
          IF g.aug = <<>> THEN Err
          ELSE Tensor(w.shape,
                 [k \in 1..(n * n) |->
                   g.aug[((k - 1) \div n) + 1][n + ((k - 1) % n) + 1]])
    IN Right(GaussJordan(w), w.shape[1])

\* torch.slogdet(w)[1], the log of the determinant's magnitude (a residue
\* has no sign to drop)
slogdet(w) ==
  IF IsMeta(w) THEN Meta(<<>>)
  ELSE Scalar(Log(Eliminate(Rows(w, w.shape[1]), w.shape[1], 1, 1).det))

(***************************************************************************)
(* InvConv.  np.random.randn and the QR factorisation give a random        *)
(* orthogonal matrix; the model draws, by seed, a permutation matrix.      *)
(***************************************************************************)
InvConv(num_channels, seed) ==
  [kind |-> "InvConv",
   num_channels |-> num_channels,
   weight |-> Tensor(<<num_channels, num_channels>>,
                [k \in 1..(num_channels * num_channels) |->
                  LET i == (k - 1) \div num_channels
                      j == (k - 1) % num_channels
                  IN IF j = (i + seed) % num_channels THEN 1 ELSE 0])]

\* a faulty InvConv.forward: in reverse the log-determinant is that of the
\* inverted matrix
InvConv_forward_inverted_det(self, x, sldj, reverse) ==
  IF IsErr(x) THEN Pair(Err, Err)
  ELSE
    LET weight == IF reverse THEN inverse(self.weight) ELSE self.weight
        sldj1 ==
          IF ~IsNone(sldj)
          THEN LET ldj == BOp(IMul, BOp(IMul, slogdet(weight),
                                        Scalar(x.shape[3])),
                              Scalar(x.shape[4]))
               IN IF reverse THEN BOp(ISub, sldj, ldj)
                  ELSE BOp(IAdd, sldj, ldj)
          ELSE sldj
        z == conv2d(x, View(weight, <<self.num_channels, self.num_channels, 1, 1>>),
                    None, 0)
    IN IF IsErr(z) THEN Pair(Err, Err) ELSE Pair(z, sldj1)

\* InvConv.forward: returns (z, sldj)
InvConv_forward(self, x, sldj, reverse) ==
  IF IsErr(x) THEN Pair(Err, Err)
  ELSE
    LET Mixed(z) ==
          IF IsErr(z) THEN Pair(Err, Err)
          ELSE Pair(z, IF ~IsNone(sldj)
                       THEN Accumulate(sldj,
                                       BOp(IMul, BOp(IMul, slogdet(self.weight),
                                                     Scalar(x.shape[3])),
                                           Scalar(x.shape[4])),
                                       reverse)
                       ELSE sldj)
    IN Mixed(conv2d(x, View(IF reverse THEN inverse(self.weight) ELSE self.weight,
                            <<self.num_channels, self.num_channels, 1, 1>>),
                    None, 0))

(***************************************************************************)
(* NN, the conditioner of a coupling layer.  params.batchnorm is always    *)
(* False (train.py and generate.py declare it store_false with default     *)
(* False), so norm_fn is ActNorm.                                          *)
(***************************************************************************)
\* nn.init.normal_: weights drawn by seed
NormalInit(shape, seed) ==
  Tensor(shape, [k \in 1..Numel(shape) |-> (seed + k * (k + 1)) % P])

NN(in_channels, mid_channels, out_channels, seed) ==
  [kind |-> "NN",
   in_norm |-> ActNorm(in_channels, FALSE),
   in_conv |-> NormalInit(<<mid_channels, in_channels, 3, 3>>, seed),
   mid_conv1 |-> NormalInit(<<mid_channels, mid_channels, 3, 3>>, seed + 1),
   mid_norm |-> ActNorm(mid_channels, FALSE),
   mid_conv2 |-> NormalInit(<<mid_channels, mid_channels, 1, 1>>, seed + 2),
   out_norm |-> ActNorm(mid_channels, FALSE),
   out_conv_weight |-> Zeros(<<out_channels, mid_channels, 3, 3>>),
   out_conv_bias |-> Zeros(<<out_channels>>)]

\* NN.forward: the convolutions that follow a norm (and its relu)
NN_convs(self, norm, x) ==
  CASE norm = "in_norm" ->
         conv2d(Map(Relu, conv2d(x, self.in_conv, None, 1)), self.mid_conv1, None, 1)
    [] norm = "mid_norm" -> conv2d(Map(Relu, x), self.mid_conv2, None, 0)
    [] norm = "out_norm" ->
         conv2d(Map(Relu, x), self.out_conv_weight, self.out_conv_bias, 1)

\* st = [self, x] after the norm has returned n and its convolutions have run
NN_normed(st, norm, n) ==
  [self |-> [st.self EXCEPT ![norm] = n.self],
   x |-> NN_convs(st.self, norm, n.ret)]

RECURSIVE NN_stages(_, _)
\* the norms of the conditioner, in order, each with its convolutions
NN_stages(st, norms) ==
  IF norms = <<>> \/ IsErr(st.x) THEN st
  ELSE NN_stages(NN_normed(st, Head(norms),
                           ActNorm_forward(st.self[Head(norms)], st.x, None, FALSE)),
                 Tail(norms))

\* NN.forward
NN_forward(self, x) ==
  NN_stages([self |-> self, x |-> x], <<"in_norm", "mid_norm", "out_norm">>)

(***************************************************************************)
(* Coupling.                                                               *)
(***************************************************************************)
Coupling(in_channels, mid_channels, seed) ==
  [kind |-> "Coupling",
   nn |-> NN(in_channels, mid_channels, 2 * in_channels, seed),
   scale |-> Ones(<<in_channels, 1, 1>>)]

\* Coupling.forward: returns the module and (x, ldj)
Coupling_forward(self, x, ldj, reverse) ==
  IF IsErr(x) THEN [self |-> self, ret |-> Pair(Err, Err)]
  ELSE
    LET Joined(self1, s, x_change, x_id, ldj1) ==
          IF IsErr(s) \/ IsErr(x_change) \/ IsErr(ldj1)
             \/ IsErr(cat(x_change, x_id))
          THEN [self |-> self1, ret |-> Pair(Err, Err)]
          ELSE [self |-> self1, ret |-> Pair(cat(x_change, x_id), ldj1)]
        Affine(self1, x_change, x_id, s, t) ==
          Joined(self1, s,
                 IF reverse
                 THEN BOp(Sub, BOp(Mul, x_change,
                                   Map(Exp, Map(LAMBDA a : 0 - a, s))), t)
                 ELSE BOp(Mul, BOp(Add, x_change, t), Map(Exp, s)),
                 x_id,
                 IF ~IsNone(ldj) THEN Accumulate(ldj, FlattenSum(s), reverse)
                 ELSE ldj)
        Conditioned(x_change, x_id, st) ==
          IF IsErr(st.x)
          THEN [self |-> [self EXCEPT !.nn = st.self], ret |-> Pair(Err, Err)]
          ELSE Affine([self EXCEPT !.nn = st.self], x_change, x_id,
                      BOp(IMul, self.scale,
                          Map(Tanh, SliceCh(st.x, 0, 2, CeilHalf(st.x.shape[2])))),
                      SliceCh(st.x, 1, 2, st.x.shape[2] \div 2))
    IN IF Len(chunk2(x)) # 2 THEN [self |-> self, ret |-> Pair(Err, Err)]
       ELSE Conditioned(chunk2(x)[1], chunk2(x)[2],
                        NN_forward(self.nn, chunk2(x)[2]))

(***************************************************************************)
(* _FlowStep.  A call also returns tr, the primitive operations executed   *)
(* in order, each with the accumulator it returned.                        *)
(***************************************************************************)
_FlowStep(in_channels, mid_channels, seed) ==
  [kind |-> "_FlowStep",
   norm |-> ActNorm(in_channels, TRUE),
   conv |-> InvConv(in_channels, seed),
   coup |-> Coupling(in_channels \div 2, mid_channels, seed)]

\* at: the level and step of the layer, filled in by the level that runs it
Op(name, reverse, sldj) ==
  [op |-> name, reverse |-> reverse, sldj |-> sldj, at |-> <<0, 0>>]

\* one layer of the step, called on (x, sldj): the layer after the call and
\* what it returns
FlowStep_call(self, layer, x, sldj, reverse) ==
  CASE layer = "norm" -> ActNorm_forward(self.norm, x, sldj, reverse)
    [] layer = "conv" ->
         [self |-> self.conv, ret |-> InvConv_forward(self.conv, x, sldj, reverse)]
    [] layer = "coup" -> Coupling_forward(self.coup, x, sldj, reverse)

\* x, sldj = layer(x, sldj, reverse), on r = [self, x, sldj, tr]
FlowStep_called(r, layer, a, reverse) ==
  IF IsErr(a.ret.x)
  THEN [self |-> [r.self EXCEPT ![layer] = a.self],
        x |-> Err, sldj |-> Err, tr |-> r.tr]
  ELSE [self |-> [r.self EXCEPT ![layer] = a.self],
        x |-> a.ret.x, sldj |-> a.ret.ldj,
        tr |-> r.tr \o <<Op(r.self[layer].kind, reverse, a.ret.ldj)>>]

RECURSIVE FlowStep_layers(_, _, _)
FlowStep_layers(r, layers, reverse) ==
  IF layers = <<>> \/ IsErr(r.x) THEN r
  ELSE FlowStep_layers(
         FlowStep_called(r, Head(layers),
                         FlowStep_call(r.self, Head(layers), r.x, r.sldj, reverse),
                         reverse),
         Tail(layers), reverse)

\* a faulty _FlowStep.forward: the layers run in the same order in both
\* directions
FlowStep_forward_one_order(self, x, sldj, reverse) ==
  FlowStep_layers([self |-> self, x |-> x,
                   sldj |-> IF IsErr(x) THEN Err ELSE sldj, tr |-> <<>>],
                  <<"norm", "conv", "coup">>, reverse)

\* _FlowStep.forward
FlowStep_forward(self, x, sldj, reverse) ==
  FlowStep_layers([self |-> self, x |-> x,
                   sldj |-> IF IsErr(x) THEN Err ELSE sldj, tr |-> <<>>],
                  IF reverse THEN <<"coup", "conv", "norm">>
                  ELSE <<"norm", "conv", "coup">>,
                  reverse)

(***************************************************************************)
(* _Glow, the recursive level stack.                                       *)
(***************************************************************************)
NoModule == [kind |-> "None"]

RECURSIVE _Glow(_, _, _, _, _)
\* _Glow.__init__
_Glow(in_channels, mid_channels, num_levels, num_steps, seed) ==
  [kind |-> "_Glow",
   num_levels |-> num_levels,
   steps |-> [i \in 1..num_steps |->
               _FlowStep(in_channels, mid_channels, seed + i)],
   next |-> IF num_levels > 1
            THEN _Glow(4 * in_channels, mid_channels, num_levels - 1,
                       num_steps, seed)
            ELSE NoModule]

At(tr, level, i) == [k \in 1..Len(tr) |-> [tr[k] EXCEPT !.at = <<level, i>>]]

RECURSIVE RunSteps(_, _, _)
\* for step in self.steps (i counts up) / reversed(self.steps) (i counts down),
\* from r = [self, x, sldj, tr]
RunSteps(r, i, reverse) ==
  IF i < 1 \/ i > Len(r.self.steps) \/ IsErr(r.x) THEN r
  ELSE LET Stepped(st) ==
             [self |-> [r.self EXCEPT !.steps[i] = st.self],
              x |-> st.x, sldj |-> st.sldj,
              tr |-> r.tr \o At(st.tr, r.self.num_levels, i)]
       IN RunSteps(Stepped(FlowStep_forward(r.self.steps[i], r.x, r.sldj, reverse)),
                   IF reverse THEN i - 1 ELSE i + 1, reverse)

SqueezeOp(self, x, sldj, reverse) ==
  IF IsErr(x) THEN <<>>
  ELSE At(<<Op("squeeze", reverse, sldj)>>, self.num_levels, 0)

RECURSIVE Glow_flows(_, _, _, _)
\* one part of _Glow.forward on r = [self, x, sldj, tr]: the steps, the
\* squeeze, or the next level if there is one
Glow_stage(r, stage, reverse) ==
  LET Below(b) ==
        [self |-> [r.self EXCEPT !.next = b.self],
         x |-> b.x, sldj |-> b.sldj, tr |-> r.tr \o b.tr]
  IN CASE stage = "steps" ->
            RunSteps(r, IF reverse THEN Len(r.self.steps) ELSE 1, reverse)
       [] stage = "squeeze" ->
            [r EXCEPT !.x = squeeze(@, reverse),
                      !.tr = @ \o SqueezeOp(r.self, squeeze(r.x, reverse),
                                            r.sldj, reverse)]
       [] stage = "next" ->
            IF r.self.next.kind # "None" /\ ~IsErr(r.x)
            THEN Below(Glow_flows(r.self.next, r.x, r.sldj, reverse))
            ELSE r

RECURSIVE Glow_stages(_, _, _)
Glow_stages(r, stages, reverse) ==
  IF stages = <<>> THEN r
  ELSE Glow_stages(Glow_stage(r, Head(stages), reverse), Tail(stages), reverse)

\* a faulty _Glow.forward: a level without a child does not squeeze
Glow_flows_terminal_plain(self, x, sldj, reverse) ==
  Glow_stages([self |-> self, x |-> x, sldj |-> sldj, tr |-> <<>>],
              IF self.next.kind = "None" THEN <<"steps", "next">>
              ELSE IF reverse THEN <<"next", "squeeze", "steps">>
              ELSE <<"steps", "squeeze", "next">>,
              reverse)

\* _Glow.forward
Glow_flows(self, x, sldj, reverse) ==
  Glow_stages([self |-> self, x |-> x, sldj |-> sldj, tr |-> <<>>],
              IF reverse THEN <<"next", "squeeze", "steps">>
              ELSE <<"steps", "squeeze", "next">>,
              reverse)

(***************************************************************************)
(* LogitTransform.                                                         *)
(***************************************************************************)
alpha == 1

\* log(s) - log(1 - s): a bijection of the open interval onto the reals; on
\* residues, the cube
LogOdds(s) == (s * s * s) % P

Sigmoid(y) == CHOOSE s \in Val : LogOdds(s) = y

\* LogitTransform._logdetgrad, elementwise; log-domain
logdetgrad(v) ==
  LET s == Add(alpha, Mul(Sub(1, 2 * alpha), v))
  IN (0 - Log(Positive(Sub(s, Mul(s, s))))) + Log(Positive(Sub(1, 2 * alpha)))

\* a faulty LogitTransform.inverse: no accumulator counts as zero
Logit_inverse_from_zero(y, sldj) ==
  LET x == Map(LAMBDA v : Mul(Sub(Sigmoid(v), alpha), Inv(Sub(1, 2 * alpha))), y)
  IN IF IsErr(x) THEN Pair(Err, Err)
     ELSE Pair(x, BOp(ISub, IF IsNone(sldj) THEN Scalar(0) ELSE sldj,
                      ViewSumKeep(Map(logdetgrad, x))))

\* LogitTransform.inverse
Logit_inverse(y, sldj) ==
  LET Out(x) ==
        IF IsErr(x) THEN Pair(Err, Err)
        ELSE IF IsNone(sldj) THEN Pair(x, None)
        ELSE Pair(x, BOp(ISub, sldj, ViewSumKeep(Map(logdetgrad, x))))
  IN Out(Map(LAMBDA v : Mul(Sub(Sigmoid(v), alpha), Inv(Sub(1, 2 * alpha))), y))

\* LogitTransform.forward
Logit_forward(x, sldj, reverse) ==
  IF reverse THEN Logit_inverse(x, sldj)
  ELSE LET Out(y) ==
             IF IsErr(y) THEN Pair(Err, Err)
             ELSE IF IsNone(sldj) THEN Pair(y, None)
             ELSE Pair(y, BOp(IAdd, sldj,
                              View(ViewSumKeep(Map(logdetgrad, x)),
                                   <<x.shape[1]>>)))
       IN Out(Map(LAMBDA v : LogOdds(Add(alpha, Mul(Sub(1, 2 * alpha), v))), x))

(***************************************************************************)
(* Glow.                                                                   *)
(***************************************************************************)
\* Glow.__init__
Glow(in_channels, num_channels, num_levels, num_steps, seed) ==
  [kind |-> "Glow",
   device |-> "cpu",
   flows |-> _Glow(in_channels * 4, num_channels, num_levels, num_steps, seed)]

\* x, sldj = self.flows(x, sldj, reverse), after a = [x, sldj, tr]
Glow_through(self, a, b) ==
  [self |-> [self EXCEPT !.flows = b.self], x |-> b.x, sldj |-> b.sldj,
   tr |-> a.tr \o b.tr]

Glow_flow(self, a, reverse) ==
  Glow_through(self, a, Glow_flows(self.flows, a.x, a.sldj, reverse))

\* a wrapper that does not squeeze before the level stack
Glow_forward_unsqueezed(self, x, sldj, reverse) ==
  LET \* not reverse: self.init, and no squeeze
      Entered(i) ==
        [x |-> i.x, sldj |-> i.ldj,
         tr |-> IF IsErr(i.x) THEN <<>> ELSE <<Op("logit", FALSE, i.ldj)>>]
      \* reverse: squeeze in reverse, then self.init in reverse
      Left(b, i) ==
        [b EXCEPT !.x = i.x, !.sldj = i.ldj,
                  !.tr = @ \o (IF IsErr(squeeze(b.x, TRUE)) THEN <<>>
                               ELSE <<Op("squeeze", TRUE, b.sldj),
                                      Op("logit", TRUE, i.ldj)>>)]
      Leave(b) ==
        IF reverse THEN Left(b, Logit_forward(squeeze(b.x, TRUE), b.sldj, TRUE))
        ELSE b
  IN Leave(Glow_flow(self,
                     IF reverse THEN [x |-> x, sldj |-> sldj, tr |-> <<>>]
                     ELSE Entered(Logit_forward(x, sldj, FALSE)),
                     reverse))

\* Glow.forward
Glow_forward(self, x, sldj, reverse) ==
  LET \* not reverse: self.init, then squeeze
      Entered(i) ==
        [x |-> squeeze(i.x, FALSE), sldj |-> i.ldj,
         tr |-> IF IsErr(squeeze(i.x, FALSE)) THEN <<>>
                ELSE <<Op("logit", FALSE, i.ldj), Op("squeeze", FALSE, i.ldj)>>]
      \* reverse: squeeze in reverse, then self.init in reverse
      Left(b, i) ==
        [b EXCEPT !.x = i.x, !.sldj = i.ldj,
                  !.tr = @ \o (IF IsErr(squeeze(b.x, TRUE)) THEN <<>>
                               ELSE <<Op("squeeze", TRUE, b.sldj),
                                      Op("logit", TRUE, i.ldj)>>)]
      Leave(b) ==
        IF reverse THEN Left(b, Logit_forward(squeeze(b.x, TRUE), b.sldj, TRUE))
        ELSE b
  IN Leave(Glow_flow(self,
                     IF reverse THEN [x |-> x, sldj |-> sldj, tr |-> <<>>]
                     ELSE Entered(Logit_forward(x, sldj, FALSE)),
                     reverse))

(***************************************************************************)
(* nn.Module.train(mode): sets training on the module and its children.    *)
(***************************************************************************)
NN_train(self, mode) ==
  [self EXCEPT !.in_norm.training = mode,
               !.mid_norm.training = mode,
               !.out_norm.training = mode]

FlowStep_train(self, mode) ==
  [self EXCEPT !.norm.training = mode,
               !.coup.nn = NN_train(self.coup.nn, mode)]

RECURSIVE Flows_train(_, _)
Flows_train(self, mode) ==
  [self EXCEPT !.steps = [i \in 1..Len(self.steps) |->
                           FlowStep_train(self.steps[i], mode)],
               !.next = IF self.next.kind = "None" THEN NoModule
                        ELSE Flows_train(self.next, mode)]

Glow_train(self, mode) == [self EXCEPT !.flows = Flows_train(self.flows, mode)]

(***************************************************************************)
(* nn.Module.to("meta"): every parameter and buffer becomes a meta tensor. *)
(***************************************************************************)
ToMeta(t) == Meta(t.shape)

ActNorm_to_meta(self) ==
  [self EXCEPT !.bias = ToMeta(self.bias), !.logs = ToMeta(self.logs)]

NN_to_meta(self) ==
  [self EXCEPT !.in_norm = ActNorm_to_meta(self.in_norm),
               !.in_conv = ToMeta(self.in_conv),
               !.mid_conv1 = ToMeta(self.mid_conv1),
               !.mid_norm = ActNorm_to_meta(self.mid_norm),
               !.mid_conv2 = ToMeta(self.mid_conv2),
               !.out_norm = ActNorm_to_meta(self.out_norm),
               !.out_conv_weight = ToMeta(self.out_conv_weight),
               !.out_conv_bias = ToMeta(self.out_conv_bias)]

FlowStep_to_meta(self) ==
  [self EXCEPT !.norm = ActNorm_to_meta(self.norm),
               !.conv.weight = ToMeta(self.conv.weight),
               !.coup.nn = NN_to_meta(self.coup.nn),
               !.coup.scale = ToMeta(self.coup.scale)]

RECURSIVE Flows_to_meta(_)
Flows_to_meta(self) ==
  [self EXCEPT !.steps = [i \in 1..Len(self.steps) |->
                           FlowStep_to_meta(self.steps[i])],
               !.next = IF self.next.kind = "None" THEN NoModule
                        ELSE Flows_to_meta(self.next)]

Glow_to_meta(self) ==
  [self EXCEPT !.device = "meta", !.flows = Flows_to_meta(self.flows)]

(***************************************************************************)
(* load_model: model.load_state_dict(state) overwrites every parameter and *)
(* buffer with the values of a checkpoint saved after training: the        *)
(* ActNorm layers are initialized, and the weights are whatever training   *)
(* left (here, drawn by position).  A meta model keeps its meta tensors.   *)
(***************************************************************************)
Like(t, data) == IF IsMeta(t) THEN t ELSE Tensor(t.shape, data)

ActNorm_load(self) ==
  [self EXCEPT !.bias = Like(self.bias, [k \in 1..Numel(self.bias.shape) |-> (2 * k) % P]),
               !.logs = Like(self.logs, [k \in 1..Numel(self.logs.shape) |-> (k % 3) - 1]),
               !.is_initialized = 1]

\* an invertible matrix that is not orthogonal: upper triangular, with
\* determinant 2
Trained_weight(n) ==
  [k \in 1..(n * n) |->
    LET i == (k - 1) \div n
        j == (k - 1) % n
    IN IF i = j THEN (IF i = 0 THEN 2 ELSE 1)
       ELSE IF j > i THEN (i + j) % P ELSE 0]

NN_load(self) ==
  [self EXCEPT
     !.in_norm = ActNorm_load(self.in_norm),
     !.in_conv = Like(self.in_conv, NormalInit(self.in_conv.shape, 2).data),
     !.mid_conv1 = Like(self.mid_conv1, NormalInit(self.mid_conv1.shape, 3).data),
     !.mid_norm = ActNorm_load(self.mid_norm),
     !.mid_conv2 = Like(self.mid_conv2, NormalInit(self.mid_conv2.shape, 1).data),
     !.out_norm = ActNorm_load(self.out_norm),
     !.out_conv_weight = Like(self.out_conv_weight,
                              NormalInit(self.out_conv_weight.shape, 1).data),
     !.out_conv_bias = Like(self.out_conv_bias,
                            NormalInit(self.out_conv_bias.shape, 2).data)]

FlowStep_load(self) ==
  [self EXCEPT
     !.norm = ActNorm_load(self.norm),
     !.conv.weight = Like(self.conv.weight, Trained_weight(self.conv.num_channels)),
     !.coup.nn = NN_load(self.coup.nn),
     !.coup.scale = Like(self.coup.scale,
                         [k \in 1..Numel(self.coup.scale.shape) |-> 1 + (k % 2)])]

RECURSIVE Flows_load(_)
Flows_load(self) ==
  [self EXCEPT !.steps = [i \in 1..Len(self.steps) |->
                           FlowStep_load(self.steps[i])],
               !.next = IF self.next.kind = "None" THEN NoModule
                        ELSE Flows_load(self.next)]

\* generate.py load_model
load_model(model) == [model EXCEPT !.flows = Flows_load(model.flows)]

(***************************************************************************)
(* The squeeze harness: a tensor whose elements are its own positions is   *)
(* squeezed in one direction and then in the other.                        *)
(***************************************************************************)
Iota(shape) == Tensor(shape, [k \in 1..Numel(shape) |-> k])

SqShapes == {<<b, c, h, w>> : b \in 1..MaxBatch, c \in 1..MaxChan,
                              h \in 1..MaxSide, w \in 1..MaxSide}

SqueezeOnce ==
  /\ sq_pc = "input"
  /\ sq_y' = squeeze(sq_x, sq_rev)
  /\ sq_pc' = "once"
  /\ UNCHANGED <<sq_rev, sq_x, sq_z>>
  /\ UNCHANGED <<an_vars, gl_vars, fs_vars, cp_vars, dr_vars>>

SqueezeBack ==
  /\ sq_pc = "once"
  /\ sq_z' = squeeze(sq_y, ~sq_rev)
  /\ sq_pc' = "twice"
  /\ UNCHANGED <<sq_rev, sq_x, sq_y>>
  /\ UNCHANGED <<an_vars, gl_vars, fs_vars, cp_vars, dr_vars>>

SqNext == SqueezeOnce \/ SqueezeBack

(***************************************************************************)
(* The ActNorm harness: one layer, called on batches in either direction,  *)
(* with or without an accumulator, between switches of train()/eval().     *)
(***************************************************************************)
\* a batch of the given shape whose elements depend on the seed
Batch(shape, seed) ==
  Tensor(shape, [k \in 1..Numel(shape) |-> (seed * k + k * k + seed) % P])

AnFeatures == 2

AnInputs ==
  {Batch(<<b, AnFeatures, 1, 2>>, seed) : b \in {1, MaxBatch}, seed \in 0..MaxSeed}

\* the accumulators a caller passes with x: none, or zeros, one per batch element
Accumulators(x) == {None, Zeros(<<x.shape[1]>>)}

\* the layers the program builds: the norm of a flow step (return_ldj = True)
\* and the norms of a conditioner (return_ldj = False)
AnLayers ==
  {_FlowStep(AnFeatures, MidChannels, 0).norm,
   NN(AnFeatures, MidChannels, 2 * AnFeatures, 0).in_norm}

\* nn.Module.train(mode) on a module without children
AnSetMode(mode) ==
  /\ an_self.training # mode
  /\ an_self' = [an_self EXCEPT !.training = mode]
  /\ UNCHANGED <<an_x, an_ldj, an_ret, an_calls, an_first>>
  /\ UNCHANGED <<sq_vars, gl_vars, fs_vars, cp_vars, dr_vars>>

AnTrain == AnSetMode(TRUE)

AnEval == AnSetMode(FALSE)

AnCall ==
  /\ an_calls < MaxCalls
  /\ \E x \in AnInputs, reverse \in BOOLEAN :
       \E ldj \in Accumulators(x) :
         \E r \in {ActNorm_forward(an_self, x, ldj, reverse)} :
            /\ an_self' = r.self
            /\ an_ret' = r.ret
            /\ an_x' = x
            /\ an_ldj' = ldj
            /\ an_first' = IF IsNone(an_first) /\ an_self.training
                           THEN x ELSE an_first
  /\ an_calls' = an_calls + 1
  /\ UNCHANGED <<sq_vars, gl_vars, fs_vars, cp_vars, dr_vars>>

AnNext == AnTrain \/ AnEval \/ AnCall

(***************************************************************************)
(* The Glow harness: a model is built, possibly loaded from a checkpoint   *)
(* and switched between train() and eval(); then it is called once, and    *)
(* called again in the other direction on what the first call returned.    *)
(* gl_fn says whether the calls are to the model (Glow.forward) or to its  *)
(* level stack (self.flows, _Glow.forward).                                *)
(***************************************************************************)
\* generate.py and train.py build Glow(in_channels = 1, ...)
InChannels == 1

RECURSIVE TwoTo(_)
TwoTo(n) == IF n = 0 THEN 1 ELSE 2 * TwoTo(n - 1)

\* the models: every configuration on the meta device and, when the
\* smallest image it takes has side at most MaxValSide, with elements
Glows ==
  {Glow_to_meta(Glow(InChannels, MidChannels, l, k, 1)) :
     l \in 1..MaxLevels, k \in 0..MaxSteps}
  \cup {Glow(InChannels, MidChannels, l, k, 1) :
          l \in {n \in 1..MaxLevels : TwoTo(n + 1) <= MaxValSide},
          k \in 0..MaxSteps}

\* the number of levels of a level stack
RECURSIVE Levels(_)
Levels(flows) == IF flows.next.kind = "None" THEN 1 ELSE 1 + Levels(flows.next)

\* the arguments (x, sldj, reverse) of a first call of fn on the model: an
\* image (or, in reverse, a latent) with an accumulator of zeros or none.
\* A model with elements is called on batches of the smallest side it
\* takes; a meta model on meta batches of that side or of twice that side,
\* of 8 images too.
Calls(fn, model) ==
  LET l == Levels(model.flows)
      c == IF fn = "Glow" THEN InChannels ELSE 4 * InChannels
      n == IF fn = "Glow" THEN l + 1 ELSE l
      meta == model.device = "meta"
      Shape(b, m, reverse) ==
        IF reverse THEN <<b, c * TwoTo(2 * n), m, m>>
        ELSE <<b, c, m * TwoTo(n), m * TwoTo(n)>>
  IN {[x |-> IF meta THEN Meta(Shape(b, m, reverse))
             ELSE Batch(Shape(b, m, reverse), 1),
       sldj |-> IF acc THEN Zeros(<<b>>) ELSE None,
       reverse |-> reverse] :
        b \in IF meta THEN {MaxBatch, 8} ELSE {1, MaxBatch},
        m \in IF meta THEN 1..2 ELSE {1},
        reverse \in BOOLEAN, acc \in BOOLEAN}

\* model.train() / model.eval()
GlSetMode(mode) ==
  /\ gl_pc = "ready"
  /\ gl_model' = Glow_train(gl_model, mode)
  /\ gl_model' # gl_model
  /\ UNCHANGED <<gl_pc, gl_fn, gl_in, gl_out, gl_back>>
  /\ UNCHANGED <<sq_vars, an_vars, fs_vars, cp_vars, dr_vars>>

GlTrain == GlSetMode(TRUE)

\* generate.py: model = load_model(model)
GlLoad ==
  /\ gl_pc = "ready"
  /\ gl_model' = load_model(gl_model)
  /\ gl_model' # gl_model
  /\ UNCHANGED <<gl_pc, gl_fn, gl_in, gl_out, gl_back>>
  /\ UNCHANGED <<sq_vars, an_vars, fs_vars, cp_vars, dr_vars>>

GlEval == GlSetMode(FALSE)

\* fn(x, sldj, reverse) on the model
Run(model, fn, x, sldj, reverse) ==
  IF fn = "Glow" THEN Glow_forward(model, x, sldj, reverse)
  ELSE LET Of(r) == [r EXCEPT !.self = [model EXCEPT !.flows = r.self]]
       IN Of(Glow_flows(model.flows, x, sldj, reverse))

Result(r) == [x |-> r.x, sldj |-> r.sldj, tr |-> r.tr]

GlCall ==
  /\ gl_pc = "ready"
  /\ \E fn \in {"Glow", "_Glow"} :
       \E a \in Calls(fn, gl_model) :
         \E r \in {Run(gl_model, fn, a.x, a.sldj, a.reverse)} :
            /\ gl_fn' = fn
            /\ gl_in' = a
            /\ gl_model' = r.self
            /\ gl_out' = Result(r)
  /\ gl_pc' = "called"
  /\ gl_back' = None
  /\ UNCHANGED <<sq_vars, an_vars, fs_vars, cp_vars, dr_vars>>

\* the same function in the other direction, on the first call's results
GlBack ==
  /\ gl_pc = "called"
  /\ \E r \in {Run(gl_model, gl_fn, gl_out.x, gl_out.sldj, ~gl_in.reverse)} :
        /\ gl_model' = r.self
        /\ gl_back' = Result(r)
  /\ gl_pc' = "back"
  /\ UNCHANGED <<gl_fn, gl_in, gl_out>>
  /\ UNCHANGED <<sq_vars, an_vars, fs_vars, cp_vars, dr_vars>>

GlNext == GlTrain \/ GlEval \/ GlLoad \/ GlCall \/ GlBack

(***************************************************************************)
(* The flow-step harness: a _FlowStep built for C channels, possibly       *)
(* loaded and switched between train() and eval(), is called once on a     *)
(* batch of C channels.                                                    *)
(***************************************************************************)
FsSetMode(mode) ==
  /\ fs_pc = "ready"
  /\ fs_self' = FlowStep_train(fs_self, mode)
  /\ fs_self' # fs_self
  /\ UNCHANGED <<fs_pc, fs_in, fs_out>>
  /\ UNCHANGED <<sq_vars, an_vars, gl_vars, cp_vars, dr_vars>>

FsTrain == FsSetMode(TRUE)

FsEval == FsSetMode(FALSE)

\* the parameters of a checkpoint
FsLoad ==
  /\ fs_pc = "ready"
  /\ fs_self' = FlowStep_load(fs_self)
  /\ fs_self' # fs_self
  /\ UNCHANGED <<fs_pc, fs_in, fs_out>>
  /\ UNCHANGED <<sq_vars, an_vars, gl_vars, cp_vars, dr_vars>>

\* the batches a step built for c channels is called on
FsInputs(c) ==
  {Batch(<<b, c, h, h>>, seed) : b \in 1..MaxBatch, h \in 1..2, seed \in 0..MaxSeed}

FsCall ==
  /\ fs_pc = "ready"
  /\ \E x \in FsInputs(fs_self.norm.num_features), reverse \in BOOLEAN :
       \E sldj \in Accumulators(x) :
         \E r \in {FlowStep_forward(fs_self, x, sldj, reverse)} :
            /\ fs_self' = r.self
            /\ fs_in' = [x |-> x, sldj |-> sldj, reverse |-> reverse]
            /\ fs_out' = Result(r)
  /\ fs_pc' = "called"
  /\ UNCHANGED <<sq_vars, an_vars, gl_vars, cp_vars, dr_vars>>

FsNext == FsTrain \/ FsEval \/ FsLoad \/ FsCall

(***************************************************************************)
(* The coupling harness: a Coupling built for in_channels, possibly loaded *)
(* and switched between train() and eval(), is called once on a batch of   *)
(* 2 * in_channels channels.                                               *)
(***************************************************************************)
\* model.train() / model.eval(), on the layer
CpSetMode(mode) ==
  /\ cp_pc = "ready"
  /\ cp_self' = [cp_self EXCEPT !.nn = NN_train(cp_self.nn, mode)]
  /\ cp_self' # cp_self
  /\ UNCHANGED <<cp_pc, cp_in, cp_out>>
  /\ UNCHANGED <<sq_vars, an_vars, gl_vars, fs_vars, dr_vars>>

CpTrain == CpSetMode(TRUE)

CpEval == CpSetMode(FALSE)

\* the parameters of a checkpoint, as FlowStep_load gives them to a layer
CpLoad ==
  /\ cp_pc = "ready"
  /\ cp_self' = [cp_self EXCEPT
                   !.nn = NN_load(cp_self.nn),
                   !.scale = Like(cp_self.scale,
                                  [k \in 1..Numel(cp_self.scale.shape) |-> 1 + (k % 2)])]
  /\ cp_self' # cp_self
  /\ UNCHANGED <<cp_pc, cp_in, cp_out>>
  /\ UNCHANGED <<sq_vars, an_vars, gl_vars, fs_vars, dr_vars>>

\* the batches a layer built for c channels is called on, as a flow step of
\* 2 * c channels calls it
CpInputs(c) == FsInputs(2 * c)

CpCall ==
  /\ cp_pc = "ready"
  /\ \E x \in CpInputs(cp_self.scale.shape[1]), reverse \in BOOLEAN :
       \E ldj \in Accumulators(x) \cup {Ones(<<x.shape[1]>>)} :
         \E r \in {Coupling_forward(cp_self, x, ldj, reverse)} :
            /\ cp_self' = r.self
            /\ cp_in' = [x |-> x, ldj |-> ldj, reverse |-> reverse]
            /\ cp_out' = r.ret
  /\ cp_pc' = "called"
  /\ UNCHANGED <<sq_vars, an_vars, gl_vars, fs_vars, dr_vars>>

CpNext == CpTrain \/ CpEval \/ CpLoad \/ CpCall

(***************************************************************************)
(* Discriminator rejection sampling, the session of generate.py.  A pq     *)
(* tensor of shape (B, 1) is the tuple of its elements; exp(validity) is   *)
(* drawn from a grid of numbers, the clamp of Discriminator.pq included.   *)
(* An acceptance probability is known by its class: "nan", "zero", "one",  *)
(* or "frac" for a number strictly between 0 and 1.                        *)
(***************************************************************************)
CalibIters == 1

CalibBatch == 2

NumImages == 2

MaxProposals == 4

PqStep == 50

MaxPqLevel == 5

MaxRequested == 3

\* torch.clamp(validity, max=200)
PqClamp == 200

Min(a, b) == IF a <= b THEN a ELSE b

\* the values exp(validity) takes
RawPq == {k * PqStep : k \in 0..MaxPqLevel}

\* Discriminator.pq, on a batch whose exp(validity) is raw
Discriminator_pq(raw) == [i \in 1..Len(raw) |-> Min(raw[i], PqClamp)]

\* torch.vstack((pq, M)): the rows of pq, then M
vstack(pq, M) == pq \o <<M>>

\* torch.max(t), t not empty
torch_max(t) ==
  CHOOSE m \in {t[i] : i \in 1..Len(t)} : \A i \in 1..Len(t) : t[i] <= m

\* a faulty update: the maximum of the batch alone
running_max_of_batch(pq, M) == torch_max(pq)

\* M = torch.max(torch.vstack((pq, M)))
running_max(pq, M) == torch_max(vstack(pq, M))

\* np.exp(args.eps_drs) for the default eps_drs = 1e-3, as a ratio
exp_eps_drs == <<1001, 1000>>

\* an acceptance probability clamped to [0, 1] where the log has no value
drs_clamped(pq, M) ==
  IF M = 0 THEN "zero"
  ELSE IF pq * exp_eps_drs[1] >= M * exp_eps_drs[2] THEN "one"
  ELSE IF pq = 0 THEN "zero"
  ELSE "frac"

\* drs(pq, M, args): the class of
\* sigmoid(log(pq) - log(M) - log(1 - pq / M * exp(eps_drs)) - gamma_drs).
\* M = 0 divides by zero, and a negative argument of log gives nan; a zero
\* argument of the last log gives sigmoid(+inf), and pq = 0 sigmoid(-inf)
drs(pq, M) ==
  IF M = 0 THEN "nan"
  ELSE IF pq * exp_eps_drs[1] > M * exp_eps_drs[2] THEN "nan"
  ELSE IF pq * exp_eps_drs[1] = M * exp_eps_drs[2] THEN "one"
  ELSE IF pq = 0 THEN "zero"
  ELSE "frac"

\* the argument of the sigmoid of drs, less the constant gamma_drs, as the
\* ratio <<n, d>> whose log it is: log(pq) - log(M) - log(1 - pq / M *
\* exp(eps_drs)) = log(pq / (M - pq * exp(eps_drs))).  A number when the
\* class of drs(pq, M) is "frac"
drs_odds(pq, M) ==
  <<pq * exp_eps_drs[2], M * exp_eps_drs[2] - pq * exp_eps_drs[1]>>

\* the outcomes of torch.rand(1) < p_accept, torch.rand(1) in [0, 1)
Accepts(p_accept) ==
  IF p_accept = "frac" THEN BOOLEAN ELSE {p_accept = "one"}

\* a proposal computed before M is updated with its pq
Proposal_accept_before_update(raw, M) ==
  LET pq == Discriminator_pq(raw)
      p_accept == drs(pq[1], M)
      M1 == running_max(pq, M)
  IN [pq |-> pq, M |-> M1, p_accept |-> p_accept,
      tr |-> <<[op |-> "pq", pq |-> pq[1]],
               [op |-> "drs", pq |-> pq[1], M |-> M, p_accept |-> p_accept],
               [op |-> "max", was |-> M, M |-> M1]>>]

\* lines 114 to 116 of the proposal loop, on a sample whose exp(validity) is
\* raw: pq = D.pq(x); M = torch.max(torch.vstack((pq, M))); p_accept =
\* drs(pq, M, args).  tr lists the steps in the order they run, each with
\* the values it has read and computed
Proposal(raw, M) ==
  LET pq == Discriminator_pq(raw)
      M1 == running_max(pq, M)
      p_accept == drs(pq[1], M1)
  IN [pq |-> pq, M |-> M1, p_accept |-> p_accept,
      tr |-> <<[op |-> "pq", pq |-> pq[1]],
               [op |-> "max", was |-> M, M |-> M1],
               [op |-> "drs", pq |-> pq[1], M |-> M1, p_accept |-> p_accept]>>]

\* one iteration of the calibration loop, on a batch of CalibBatch samples
DrCalibrate ==
  /\ dr_pc = "calib"
  /\ dr_idx < CalibIters
  /\ \E raw \in [1..CalibBatch -> RawPq] :
       LET pq == Discriminator_pq(raw)
       IN /\ dr_pq' = pq
          /\ dr_M' = running_max(pq, dr_M)
          /\ dr_seen' = dr_seen \cup {pq[i] : i \in 1..Len(pq)}
  /\ dr_idx' = dr_idx + 1
  /\ UNCHANGED <<dr_pc, dr_n_samples, dr_p_accept, dr_accepted, dr_saved,
                 dr_args, dr_rate, dr_tr>>
  /\ UNCHANGED <<sq_vars, an_vars, gl_vars, fs_vars, cp_vars>>

\* the calibration loop is over: n_samples = 0, and the generation loop starts
DrCalibrated ==
  /\ dr_pc = "calib"
  /\ dr_idx = CalibIters
  /\ dr_pc' = "gen"
  /\ dr_idx' = 0
  /\ dr_n_samples' = 0
  /\ UNCHANGED <<dr_M, dr_pq, dr_p_accept, dr_accepted, dr_seen, dr_saved,
                 dr_args, dr_rate, dr_tr>>
  /\ UNCHANGED <<sq_vars, an_vars, gl_vars, fs_vars, cp_vars>>

\* a counter of the images started as well as of the proposals
DrImage_counted ==
  /\ dr_pc = "gen"
  /\ dr_idx < NumImages
  /\ dr_accepted' = FALSE
  /\ dr_n_samples' = dr_n_samples + 1
  /\ dr_pc' = "retry"
  /\ UNCHANGED <<dr_M, dr_idx, dr_pq, dr_p_accept, dr_seen, dr_saved,
                 dr_args, dr_rate, dr_tr>>
  /\ UNCHANGED <<sq_vars, an_vars, gl_vars, fs_vars, cp_vars>>

\* for idx in te: accepted = False
DrImage ==
  /\ dr_pc = "gen"
  /\ dr_idx < NumImages
  /\ dr_accepted' = FALSE
  /\ dr_pc' = "retry"
  /\ UNCHANGED <<dr_M, dr_idx, dr_n_samples, dr_pq, dr_p_accept, dr_seen, dr_saved,
                 dr_args, dr_rate, dr_tr>>
  /\ UNCHANGED <<sq_vars, an_vars, gl_vars, fs_vars, cp_vars>>

\* one turn of the loop while not accepted: a proposal
DrPropose ==
  /\ dr_pc = "retry"
  /\ ~dr_accepted
  /\ dr_n_samples < MaxProposals
  /\ dr_n_samples' = dr_n_samples + 1
  /\ \E raw \in [1..1 -> RawPq] :
       \E r \in {Proposal(raw, dr_M)} :
         \E accepted \in Accepts(r.p_accept) :
            /\ dr_pq' = r.pq
            /\ dr_M' = r.M
            /\ dr_seen' = dr_seen \cup {r.pq[1]}
            /\ dr_p_accept' = r.p_accept
            /\ dr_accepted' = accepted
            /\ dr_tr' = Append(r.tr, [op |-> "rand", accepted |-> accepted])
  /\ UNCHANGED <<dr_pc, dr_idx, dr_saved, dr_args, dr_rate>>
  /\ UNCHANGED <<sq_vars, an_vars, gl_vars, fs_vars, cp_vars>>

\* a loop that is left after any proposal or none, accepted or not
DrSave_unaccepted ==
  /\ dr_pc = "retry"
  /\ dr_saved' = Append(dr_saved, dr_idx)
  /\ dr_idx' = dr_idx + 1
  /\ dr_rate' = <<dr_idx + 1, dr_n_samples>>
  /\ dr_pc' = "gen"
  /\ UNCHANGED <<dr_M, dr_n_samples, dr_pq, dr_p_accept, dr_accepted, dr_seen,
                 dr_args, dr_tr>>
  /\ UNCHANGED <<sq_vars, an_vars, gl_vars, fs_vars, cp_vars>>

\* the proposal was accepted: the image is saved as idx.png, and the rate
\* (idx + 1) / n_samples is reported, here as <<idx + 1, n_samples>>
DrSave ==
  /\ dr_pc = "retry"
  /\ dr_accepted
  /\ dr_saved' = Append(dr_saved, dr_idx)
  /\ dr_idx' = dr_idx + 1
  /\ dr_rate' = <<dr_idx + 1, dr_n_samples>>
  /\ dr_pc' = "gen"
  /\ UNCHANGED <<dr_M, dr_n_samples, dr_pq, dr_p_accept, dr_accepted, dr_seen,
                 dr_args, dr_tr>>
  /\ UNCHANGED <<sq_vars, an_vars, gl_vars, fs_vars, cp_vars>>

\* the generation loop is over
DrDone ==
  /\ dr_pc = "gen"
  /\ dr_idx = NumImages
  /\ dr_pc' = "done"
  /\ UNCHANGED <<dr_M, dr_idx, dr_n_samples, dr_pq, dr_p_accept, dr_accepted,
                 dr_seen, dr_saved, dr_args, dr_rate, dr_tr>>
  /\ UNCHANGED <<sq_vars, an_vars, gl_vars, fs_vars, cp_vars>>

DrNext ==
  DrCalibrate \/ DrCalibrated \/ DrImage \/ DrPropose \/ DrSave \/ DrDone

(***************************************************************************)
(* Specifications.                                                         *)
(***************************************************************************)
\* a tensor to squeeze, in one direction; the other harnesses stay idle
InitSqueeze ==
  /\ sq_pc = "input"
  /\ sq_rev \in BOOLEAN
  /\ sq_x \in {Iota(s) : s \in SqShapes}
  /\ sq_y = None
  /\ sq_z = None
  /\ an_self = None
  /\ an_x = None
  /\ an_ldj = None
  /\ an_ret = None
  /\ an_calls = 0
  /\ an_first = None
  /\ gl_model = None
  /\ gl_pc = "idle"
  /\ gl_fn = "Glow"
  /\ gl_in = None
  /\ gl_out = None
  /\ gl_back = None
  /\ fs_self = None
  /\ fs_pc = "idle"
  /\ fs_in = None
  /\ fs_out = None
  /\ cp_self = None
  /\ cp_pc = "idle"
  /\ cp_in = None
  /\ cp_out = None
  /\ dr_pc = "idle"
  /\ dr_M = 0
  /\ dr_idx = 0
  /\ dr_n_samples = 0
  /\ dr_pq = <<>>
  /\ dr_p_accept = "none"
  /\ dr_accepted = FALSE
  /\ dr_seen = {}
  /\ dr_saved = <<>>
  /\ dr_args = None
  /\ dr_rate = None
  /\ dr_tr = <<>>

SpecSqueeze == InitSqueeze /\ [][SqNext]_vars

\* one of the layers the program builds, not yet called; the other harnesses stay idle
InitActNorm ==
  /\ sq_pc = "idle"
  /\ sq_rev = FALSE
  /\ sq_x = None
  /\ sq_y = None
  /\ sq_z = None
  /\ an_self \in AnLayers
  /\ an_x = None
  /\ an_ldj = None
  /\ an_ret = None
  /\ an_calls = 0
  /\ an_first = None
  /\ gl_model = None
  /\ gl_pc = "idle"
  /\ gl_fn = "Glow"
  /\ gl_in = None
  /\ gl_out = None
  /\ gl_back = None
  /\ fs_self = None
  /\ fs_pc = "idle"
  /\ fs_in = None
  /\ fs_out = None
  /\ cp_self = None
  /\ cp_pc = "idle"
  /\ cp_in = None
  /\ cp_out = None
  /\ dr_pc = "idle"
  /\ dr_M = 0
  /\ dr_idx = 0
  /\ dr_n_samples = 0
  /\ dr_pq = <<>>
  /\ dr_p_accept = "none"
  /\ dr_accepted = FALSE
  /\ dr_seen = {}
  /\ dr_saved = <<>>
  /\ dr_args = None
  /\ dr_rate = None
  /\ dr_tr = <<>>

SpecActNorm == InitActNorm /\ [][AnNext]_vars

\* a model as Glow.__init__ leaves it, not yet called; the other harnesses stay idle
InitGlow ==
  /\ sq_pc = "idle"
  /\ sq_rev = FALSE
  /\ sq_x = None
  /\ sq_y = None
  /\ sq_z = None
  /\ an_self = None
  /\ an_x = None
  /\ an_ldj = None
  /\ an_ret = None
  /\ an_calls = 0
  /\ an_first = None
  /\ gl_model \in Glows
  /\ gl_pc = "ready"
  /\ gl_fn = "Glow"
  /\ gl_in = None
  /\ gl_out = None
  /\ gl_back = None
  /\ fs_self = None
  /\ fs_pc = "idle"
  /\ fs_in = None
  /\ fs_out = None
  /\ cp_self = None
  /\ cp_pc = "idle"
  /\ cp_in = None
  /\ cp_out = None
  /\ dr_pc = "idle"
  /\ dr_M = 0
  /\ dr_idx = 0
  /\ dr_n_samples = 0
  /\ dr_pq = <<>>
  /\ dr_p_accept = "none"
  /\ dr_accepted = FALSE
  /\ dr_seen = {}
  /\ dr_saved = <<>>
  /\ dr_args = None
  /\ dr_rate = None
  /\ dr_tr = <<>>

SpecGlow == InitGlow /\ [][GlNext]_vars

\* a flow step as _FlowStep.__init__ leaves it; the other harnesses stay idle
InitFlowStep ==
  /\ sq_pc = "idle"
  /\ sq_rev = FALSE
  /\ sq_x = None
  /\ sq_y = None
  /\ sq_z = None
  /\ an_self = None
  /\ an_x = None
  /\ an_ldj = None
  /\ an_ret = None
  /\ an_calls = 0
  /\ an_first = None
  /\ gl_model = None
  /\ gl_pc = "idle"
  /\ gl_fn = "Glow"
  /\ gl_in = None
  /\ gl_out = None
  /\ gl_back = None
  /\ fs_self \in {_FlowStep(c, MidChannels, seed) :
                    c \in 1..MaxChan, seed \in 0..MaxSeed}
  /\ fs_pc = "ready"
  /\ fs_in = None
  /\ fs_out = None
  /\ cp_self = None
  /\ cp_pc = "idle"
  /\ cp_in = None
  /\ cp_out = None
  /\ dr_pc = "idle"
  /\ dr_M = 0
  /\ dr_idx = 0
  /\ dr_n_samples = 0
  /\ dr_pq = <<>>
  /\ dr_p_accept = "none"
  /\ dr_accepted = FALSE
  /\ dr_seen = {}
  /\ dr_saved = <<>>
  /\ dr_args = None
  /\ dr_rate = None
  /\ dr_tr = <<>>

SpecFlowStep == InitFlowStep /\ [][FsNext]_vars

\* a layer as Coupling.__init__ leaves it; the other harnesses stay idle
InitCoupling ==
  /\ sq_pc = "idle"
  /\ sq_rev = FALSE
  /\ sq_x = None
  /\ sq_y = None
  /\ sq_z = None
  /\ an_self = None
  /\ an_x = None
  /\ an_ldj = None
  /\ an_ret = None
  /\ an_calls = 0
  /\ an_first = None
  /\ gl_model = None
  /\ gl_pc = "idle"
  /\ gl_fn = "Glow"
  /\ gl_in = None
  /\ gl_out = None
  /\ gl_back = None
  /\ fs_self = None
  /\ fs_pc = "idle"
  /\ fs_in = None
  /\ fs_out = None
  /\ cp_self \in {Coupling(c, MidChannels, seed) :
                    c \in 1..(MaxChan \div 2), seed \in 0..MaxSeed}
  /\ cp_pc = "ready"
  /\ cp_in = None
  /\ cp_out = None
  /\ dr_pc = "idle"
  /\ dr_M = 0
  /\ dr_idx = 0
  /\ dr_n_samples = 0
  /\ dr_pq = <<>>
  /\ dr_p_accept = "none"
  /\ dr_accepted = FALSE
  /\ dr_seen = {}
  /\ dr_saved = <<>>
  /\ dr_args = None
  /\ dr_rate = None
  /\ dr_tr = <<>>

SpecCoupling == InitCoupling /\ [][CpNext]_vars

\* the session as line 90 of generate.py leaves it: the arguments parsed
\* (--n_samples N) and M = torch.Tensor([0.]); the other harnesses stay idle
InitDRS ==
  /\ sq_pc = "idle"
  /\ sq_rev = FALSE
  /\ sq_x = None
  /\ sq_y = None
  /\ sq_z = None
  /\ an_self = None
  /\ an_x = None
  /\ an_ldj = None
  /\ an_ret = None
  /\ an_calls = 0
  /\ an_first = None
  /\ gl_model = None
  /\ gl_pc = "idle"
  /\ gl_fn = "Glow"
  /\ gl_in = None
  /\ gl_out = None
  /\ gl_back = None
  /\ fs_self = None
  /\ fs_pc = "idle"
  /\ fs_in = None
  /\ fs_out = None
  /\ cp_self = None
  /\ cp_pc = "idle"
  /\ cp_in = None
  /\ cp_out = None
  /\ dr_pc = "calib"
  /\ dr_M = 0
  /\ dr_idx = 0
  /\ dr_n_samples = 0
  /\ dr_pq = <<>>
  /\ dr_p_accept = "none"
  /\ dr_accepted = FALSE
  /\ dr_seen = {}
  /\ dr_saved = <<>>
  /\ dr_args \in [n_samples : 0..MaxRequested]
  /\ dr_rate = None
  /\ dr_tr = <<>>

SpecDRS == InitDRS /\ [][DrNext]_vars

\* the session of a program that keeps running: a step that can be taken
\* is taken
SpecDRSFair == SpecDRS /\ WF_vars(DrNext)

(***************************************************************************)
(* Properties.                                                             *)
(***************************************************************************)
\* the operations of a trace: which, of which layer, in which direction
Names(tr) == [k \in 1..Len(tr) |-> <<tr[k].op, tr[k].at, tr[k].reverse>>]

RECURSIVE StepOps(_, _, _)
\* steps i..k of level l, forward: ActNorm, InvConv, Coupling of each in turn
StepOps(l, i, k) ==
  IF i > k THEN <<>>
  ELSE <<<<"ActNorm", <<l, i>>, FALSE>>, <<"InvConv", <<l, i>>, FALSE>>,
         <<"Coupling", <<l, i>>, FALSE>>>> \o StepOps(l, i + 1, k)

RECURSIVE LevelOps(_, _)
\* levels l, l - 1, ..., 1, forward: the steps of each, then a squeeze
LevelOps(l, k) ==
  IF l = 0 THEN <<>>
  ELSE StepOps(l, 1, k) \o <<<<"squeeze", <<l, 0>>, FALSE>>>> \o LevelOps(l - 1, k)

ForwardOps(l, k) ==
  <<<<"logit", <<0, 0>>, FALSE>>, <<"squeeze", <<0, 0>>, FALSE>>>> \o LevelOps(l, k)

\* the same operations backwards, each one inverted
Inverted(ops) ==
  [i \in 1..Len(ops) |->
    <<ops[Len(ops) + 1 - i][1], ops[Len(ops) + 1 - i][2], ~ops[Len(ops) + 1 - i][3]>>]

GlLevels == Levels(gl_model.flows)

GlSteps == Len(gl_model.flows.steps)

\* C1: Glow.forward in reverse executes the operations of the forward pass
\* in the opposite order, each inverted (forward: logit, squeeze, then per
\* level from the outermost the steps ActNorm, InvConv, Coupling and a
\* squeeze), and calling the model in one direction and then in the other
\* on the result gives back the input.
C1_InverseIsReversedForward ==
  (gl_fn = "Glow" /\ gl_pc \in {"called", "back"}) =>
    /\ ~IsErr(gl_out.x)
    /\ Names(gl_out.tr) = IF gl_in.reverse
                          THEN Inverted(ForwardOps(GlLevels, GlSteps))
                          ELSE ForwardOps(GlLevels, GlSteps)
    /\ gl_pc = "back" =>
         /\ Names(gl_back.tr) = Inverted(Names(gl_out.tr))
         /\ gl_back.x = gl_in.x

C1_Witness ==
  /\ gl_fn = "Glow"
  /\ gl_pc = "back"
  /\ ~gl_in.reverse
  /\ gl_in.x.kind = "tensor"
  /\ GlLevels = 2
  /\ GlSteps = 1
  /\ gl_model.flows.steps[1].coup.nn.out_conv_weight
       # Zeros(gl_model.flows.steps[1].coup.nn.out_conv_weight.shape)
  /\ gl_out.x.data # squeeze(squeeze(squeeze(gl_in.x, FALSE), FALSE), FALSE).data
  /\ gl_back.x = gl_in.x

\* equality of tensors; of a meta tensor only the shape is known
Same(a, b) == IF IsMeta(a) \/ IsMeta(b) THEN a.shape = b.shape ELSE a = b

\* the change of the accumulator made by operation k of a trace that
\* started from the accumulator sldj
Delta(tr, sldj, k) == BOp(ISub, tr[k].sldj, IF k = 1 THEN sldj ELSE tr[k - 1].sldj)

\* C2: with an accumulator, every layer of the level stack changes it in
\* the inverse direction by the opposite of its change in the forward
\* direction, so _Glow forward and then inverse on the result (or inverse
\* and then forward) returns the accumulator it started from.
C2_AccumulatorRoundTrip ==
  (gl_fn = "_Glow" /\ gl_pc = "back" /\ ~IsNone(gl_in.sldj)) =>
    /\ Same(gl_back.sldj, gl_in.sldj)
    /\ Len(gl_back.tr) = Len(gl_out.tr)
    /\ \A k \in 1..Len(gl_out.tr) :
         Same(BOp(IAdd, Delta(gl_out.tr, gl_in.sldj, k),
                  Delta(gl_back.tr, gl_out.sldj, Len(gl_out.tr) + 1 - k)),
              Zeros(gl_in.sldj.shape))

C2_Witness ==
  /\ gl_fn = "_Glow"
  /\ gl_pc = "back"
  /\ ~gl_in.reverse
  /\ ~IsNone(gl_in.sldj)
  /\ GlLevels = 2
  /\ GlSteps = 1
  /\ gl_out.sldj.kind = "tensor"
  /\ \E b \in 1..Len(gl_out.sldj.data) : gl_out.sldj.data[b] # gl_in.sldj.data[b]
  /\ \E k \in 1..Len(gl_out.tr) :
       /\ gl_out.tr[k].op = "Coupling"
       /\ Delta(gl_out.tr, gl_in.sldj, k) # Zeros(gl_in.sldj.shape)
  /\ \E k \in 1..Len(gl_out.tr) :
       /\ gl_out.tr[k].op = "InvConv"
       /\ Delta(gl_out.tr, gl_in.sldj, k) # Zeros(gl_in.sldj.shape)
  /\ gl_model.flows.steps[1].conv.weight
       = Tensor(<<4, 4>>, Trained_weight(4))
  /\ gl_back.sldj = gl_in.sldj

Squeezes(tr) == Cardinality({k \in 1..Len(tr) : tr[k].op = "squeeze"})

\* C3 as claimed: a forward pass of a Glow of L levels squeezes L times (the
\* terminal level does not squeeze), and num_levels = 3, num_steps = 1 on a
\* batch of shape (8, 1, 32, 32) returns shape (8, 64, 4, 4).
C3_TerminalLevelDoesNotSqueeze ==
  (gl_fn = "Glow" /\ gl_pc = "called" /\ ~gl_in.reverse) =>
    /\ Squeezes(gl_out.tr) = GlLevels
    /\ (GlLevels = 3 /\ GlSteps = 1 /\ gl_in.x.shape = <<8, 1, 32, 32>>) =>
         gl_out.x.shape = <<8, 64, 4, 4>>

\* C3, amended: every level squeezes after its steps, the terminal level
\* too, so a forward pass of a Glow of L levels squeezes L + 1 times, and
\* num_levels = 3, num_steps = 1 on a batch of shape (8, 1, 32, 32) returns
\* shape (8, 256, 2, 2).
C3_EveryLevelSqueezes ==
  (gl_fn = "Glow" /\ gl_pc = "called" /\ ~gl_in.reverse) =>
    /\ Squeezes(gl_out.tr) = GlLevels + 1
    /\ gl_out.tr[Len(gl_out.tr)] = [op |-> "squeeze", reverse |-> FALSE,
                                     sldj |-> gl_out.sldj, at |-> <<1, 0>>]
    /\ (GlLevels = 3 /\ GlSteps = 1 /\ gl_in.x.shape = <<8, 1, 32, 32>>) =>
         gl_out.x.shape = <<8, 256, 2, 2>>

C3_Witness ==
  /\ gl_fn = "Glow"
  /\ gl_pc = "called"
  /\ ~gl_in.reverse
  /\ GlLevels = 3
  /\ GlSteps = 1
  /\ gl_in.x.shape = <<8, 1, 32, 32>>
  /\ gl_out.x.shape = <<8, 256, 2, 2>>
  /\ Squeezes(gl_out.tr) = 4

\* C7: called with None as the accumulator, in either direction, Glow
\* returns None as the accumulator and every layer it runs returns None.
C7_NoneDisablesTracking ==
  (gl_fn = "Glow" /\ gl_pc \in {"called", "back"} /\ IsNone(gl_in.sldj)) =>
    /\ IsNone(gl_out.sldj)
    /\ \A k \in 1..Len(gl_out.tr) : IsNone(gl_out.tr[k].sldj)
    /\ gl_pc = "back" =>
         /\ IsNone(gl_back.sldj)
         /\ \A k \in 1..Len(gl_back.tr) : IsNone(gl_back.tr[k].sldj)

C7_Witness ==
  /\ gl_fn = "Glow"
  /\ gl_pc = "called"
  /\ gl_in.reverse
  /\ IsNone(gl_in.sldj)
  /\ gl_in.x.kind = "tensor"
  /\ GlLevels = 2
  /\ GlSteps = 1
  /\ Len(gl_out.tr) = 10
  /\ gl_out.x.kind = "tensor"
  /\ IsNone(gl_out.sldj)

\* C9: given an accumulator of shape (B,), Glow returns an accumulator of
\* shape (B,), in the forward and in the inverse direction.
C9_AccumulatorPerBatchElement ==
  (gl_fn = "Glow" /\ gl_pc = "called" /\ ~IsNone(gl_in.sldj)) =>
    gl_out.sldj.shape = <<gl_in.x.shape[1]>>

(***************************************************************************)
(* The one-shot initialization of ActNorm.                                 *)
(***************************************************************************)
\* the sum of F over the elements of channel c (from 0) of a 4-d tensor
ChannelSum(F(_), x, c) ==
  LET n == x.shape[1] * x.shape[3] * x.shape[4]
      hw == x.shape[3] * x.shape[4]
  IN SumFrom([k \in 1..n |->
               F(x.data[(((k - 1) \div hw) * x.shape[2] + c) * hw
                        + ((k - 1) % hw) + 1])] \o <<>>, 1) % P

\* the mean of F over the elements of channel c
ChannelMean(F(_), x, c) ==
  Mul(ChannelSum(F, x, c), Inv((x.shape[1] * x.shape[3] * x.shape[4]) % P))

\* minus the per-channel mean of the batch x
StatBias(x) ==
  Tensor(<<1, x.shape[2], 1, 1>>,
         [c \in 1..x.shape[2] |-> Neg(ChannelMean(LAMBDA v : v, x, c - 1))])

\* log(scale / (stddev + eps)) of the batch x, per channel
StatLogs(x, scale) ==
  Tensor(<<1, x.shape[2], 1, 1>>,
         [c \in 1..x.shape[2] |->
           LET m == ChannelMean(LAMBDA v : v, x, c - 1)
               var == ChannelMean(LAMBDA v : Mul(Sub(v, m), Sub(v, m)), x, c - 1)
           IN Log(Mul(scale, Inv(SqrtEps(var))))])

\* this step is a call of the layer that assigns bias and logs from the data
AnAssigns == an_self'.is_initialized # an_self.is_initialized

\* what C4 says of a step
AnOneShot ==
  /\ AnAssigns <=> /\ an_calls' = an_calls + 1
                   /\ an_self.training
                   /\ an_self.is_initialized = 0
  /\ AnAssigns => /\ an_self'.is_initialized = 1
                  /\ an_self'.bias = StatBias(an_x')
                  /\ an_self'.logs = StatLogs(an_x', an_self.scale)
  /\ ~AnAssigns => /\ an_self'.bias = an_self.bias
                   /\ an_self'.logs = an_self.logs
  /\ an_self.is_initialized # 0 => an_self'.is_initialized # 0

\* C4: a step assigns bias and logs from the data if and only if it is a
\* call made in training mode with the flag unset; that call sets the flag
\* and assigns the statistics of its batch; no other step (a call in
\* inference mode, a call with the flag set, a mode switch) changes bias,
\* logs or the flag; the flag, once set, stays set.  So an initialized
\* layer holds the statistics of its first training-mode batch.
C4_OneShotInitialization ==
  /\ [][AnOneShot]_vars
  /\ [](an_calls > 0 /\ an_self.is_initialized # 0 =>
          /\ ~IsNone(an_first)
          /\ an_self.bias = StatBias(an_first)
          /\ an_self.logs = StatLogs(an_first, an_self.scale))
  /\ [](an_calls > 0 /\ an_self.is_initialized = 0 =>
          /\ IsNone(an_first)
          /\ an_self.bias = Zeros(an_self.bias.shape)
          /\ an_self.logs = Zeros(an_self.logs.shape))

\* a second call in training mode, on a batch of other statistics than the
\* first, after which the layer still holds the statistics of the first
C4_Witness ==
  /\ an_calls = 2
  /\ an_self.training
  /\ an_self.is_initialized = 1
  /\ ~IsNone(an_first)
  /\ an_x # an_first
  /\ StatBias(an_x) # StatBias(an_first)
  /\ StatLogs(an_x, an_self.scale) # StatLogs(an_first, an_self.scale)
  /\ an_self.bias = StatBias(an_first)
  /\ an_self.logs = StatLogs(an_first, an_self.scale)
  /\ an_self.bias # Zeros(an_self.bias.shape)

(***************************************************************************)
(* squeeze.                                                                *)
(***************************************************************************)
\* C5: for x of shape (B, C, H, W), H and W even, squeeze(x) has shape
\* (B, 4C, H/2, W/2), holds every element of x exactly once, and
\* squeeze(squeeze(x), reverse=True) = x; for y of C channels, C a multiple
\* of 4, squeeze(y, reverse=True) has shape (B, C/4, 2H, 2W), holds every
\* element of y once, and squeeze of it is y.
C5_SqueezeIsBijection ==
  LET b == sq_x.shape[1]
      c == sq_x.shape[2]
      h == sq_x.shape[3]
      w == sq_x.shape[4]
      applies == IF sq_rev THEN c % 4 = 0 ELSE h % 2 = 0 /\ w % 2 = 0
  IN (sq_pc \in {"once", "twice"} /\ applies) =>
       /\ sq_y.shape = IF sq_rev THEN <<b, c \div 4, 2 * h, 2 * w>>
                                 ELSE <<b, 4 * c, h \div 2, w \div 2>>
       /\ Len(sq_y.data) = Len(sq_x.data)
       /\ {sq_y.data[k] : k \in 1..Len(sq_y.data)}
            = {sq_x.data[k] : k \in 1..Len(sq_x.data)}
       /\ sq_pc = "twice" => sq_z = sq_x

\* a squeeze that moves elements, undone by the squeeze in reverse
C5_Witness ==
  /\ sq_pc = "twice"
  /\ ~sq_rev
  /\ sq_x.shape = <<2, 3, 4, 2>>
  /\ sq_y.shape = <<2, 12, 2, 1>>
  /\ sq_y.data # sq_x.data
  /\ sq_z = sq_x

(***************************************************************************)
(* A flow step of an odd number of channels.                               *)
(***************************************************************************)
\* C6: a call, forward or inverse, of a flow step built for an odd number
\* of channels fails with an error.
C6_OddChannelsAlwaysFail ==
  (fs_pc = "called" /\ fs_self.norm.num_features % 2 = 1) => IsErr(fs_out.x)

(***************************************************************************)
(* What ActNorm returns.                                                   *)
(***************************************************************************)
\* C8 as claimed: a call of ActNorm with ldj = None returns the transformed
\* tensor alone, not a pair, whichever the instance.
C8_NoAccumulatorReturnsTensorOnly ==
  (an_calls > 0 /\ IsNone(an_ldj)) => an_ret.kind = "tensor"

\* C8, amended: what a call of ActNorm returns depends on return_ldj alone.
\* A layer built with return_ldj = False (a norm of a conditioner) returns
\* the transformed tensor alone, with or without ldj; a layer built with
\* return_ldj = True (the norm of a flow step) returns the pair
\* (tensor, ldj), and with ldj = None the pair (tensor, None).
C8_ReturnFollowsReturnLdj ==
  an_calls > 0 =>
    /\ ~an_self.return_ldj => an_ret.kind = "tensor"
    /\ an_self.return_ldj =>
         /\ an_ret.kind = "tuple"
         /\ an_ret.x.kind = "tensor"
         /\ IsNone(an_ldj) <=> IsNone(an_ret.ldj)

C8_Witness ==
  /\ an_calls > 0
  /\ an_self = [_FlowStep(AnFeatures, MidChannels, 0).norm
                  EXCEPT !.is_initialized = 1, !.bias = an_self.bias,
                         !.logs = an_self.logs]
  /\ IsNone(an_ldj)
  /\ an_ret.kind = "tuple"
  /\ an_ret.x.kind = "tensor"
  /\ an_ret.x # an_x
  /\ IsNone(an_ret.ldj)

(***************************************************************************)
(* The running maximum of the sampling session.                            *)
(***************************************************************************)
\* what C10 says of a step
DrMonotone ==
  /\ dr_M' >= dr_M
  /\ \A i \in 1..Len(dr_pq') : dr_pq'[i] <= dr_M'
  /\ dr_pc' # dr_pc => dr_M' = dr_M

\* C10: M is 0 when the session starts, before any pq was observed; no
\* step decreases M, the step from the calibration pass to the generation
\* pass leaves it as it is, and after every update M is at least every pq
\* of the batch and every pq observed so far (it is one of them, or 0).
C10_RunningMaxNeverDecreases ==
  /\ [][DrMonotone]_vars
  /\ [](dr_seen = {} => dr_M = 0)
  /\ [](\A v \in dr_seen : v <= dr_M)
  /\ [](dr_M \in dr_seen \cup {0})

\* in the generation pass, after a calibration pass that raised M, a
\* proposal of a smaller pq leaves M where it was
C10_Witness ==
  /\ dr_pc = "retry"
  /\ dr_n_samples >= 2
  /\ Cardinality(dr_seen) >= 3
  /\ dr_M = PqClamp
  /\ dr_pq # <<>>
  /\ dr_pq[1] > 0
  /\ dr_pq[1] < dr_M

(***************************************************************************)
(* The acceptance probability.                                             *)
(***************************************************************************)
\* drs(a, M) and drs(b, M) are numbers and the first is the greater: the
\* sigmoid and the log are increasing, so two probabilities strictly between
\* 0 and 1 compare as their odds
DrsHigher(a, b, M) ==
  /\ drs(a, M) # "nan"
  /\ drs(b, M) # "nan"
  /\ \/ drs(a, M) = "one" /\ drs(b, M) # "one"
     \/ drs(a, M) # "zero" /\ drs(b, M) = "zero"
     \/ /\ drs(a, M) = "frac"
        /\ drs(b, M) = "frac"
        /\ drs_odds(a, M)[1] * drs_odds(b, M)[2]
             > drs_odds(b, M)[1] * drs_odds(a, M)[2]

\* C11: with the default eps_drs and gamma_drs, the acceptance probability
\* of every proposal (its pq is in [0, M], M being updated first) is a
\* number, never NaN, and for the M of the session drs gives a number for
\* every pq in [0, M], at pq = M a higher one than at pq = 0.1 * M.
C11_AcceptanceIsValidOnRange ==
  /\ dr_p_accept \in {"none", "zero", "frac", "one"}
  /\ (dr_pc \in {"gen", "retry", "done"} /\ dr_M > 0) =>
       /\ \A pq \in 0..dr_M : drs(pq, dr_M) # "nan"
       /\ DrsHigher(dr_M, dr_M \div 10, dr_M)

(***************************************************************************)
(* The generation pass.                                                    *)
(***************************************************************************)
\* C12: when the generation pass is over, the images it saved are as many
\* as the n_samples argument asked for, and it saves no more than that on
\* the way.
C12_ProducesRequestedCount ==
  /\ dr_pc = "done" => Len(dr_saved) = dr_args.n_samples
  /\ dr_pc \in {"gen", "retry"} => Len(dr_saved) <= dr_args.n_samples

(***************************************************************************)
(* A coupling layer as constructed.                                        *)
(***************************************************************************)
\* the parameters the constructor sets are still in place: the final
\* convolution of the conditioner is zero and the scale is one
CpAsConstructed ==
  /\ cp_self.nn.out_conv_weight = Zeros(cp_self.nn.out_conv_weight.shape)
  /\ cp_self.nn.out_conv_bias = Zeros(cp_self.nn.out_conv_bias.shape)
  /\ cp_self.scale = Ones(cp_self.scale.shape)

\* C13: a Coupling layer whose parameters are as the constructor left them
\* returns, in the forward and in the inverse direction, in train() and in
\* eval() mode, the batch it was given and the accumulator it was given
\* (None for None), and the call leaves those parameters as they were.
C13_CouplingStartsAsIdentity ==
  (cp_pc = "called" /\ CpAsConstructed) =>
    /\ cp_out.x = cp_in.x
    /\ cp_out.ldj = cp_in.ldj

\* a layer in train() mode, whose call initialized the norms of its
\* conditioner, was called forward with an accumulator of ones on a batch
\* that is not zero, and returned both
C13_Witness ==
  /\ cp_pc = "called"
  /\ CpAsConstructed
  /\ cp_self.nn.in_norm.is_initialized = 1
  /\ cp_self.nn.in_norm.bias # Zeros(cp_self.nn.in_norm.bias.shape)
  /\ ~cp_in.reverse
  /\ cp_in.x.shape = <<MaxBatch, 4, 2, 2>>
  /\ cp_in.ldj = Ones(<<MaxBatch>>)
  /\ cp_out.x = cp_in.x
  /\ cp_out.ldj = cp_in.ldj
  /\ \E k \in 1..Len(cp_in.x.data) : cp_in.x.data[k] # 0

\* what C14 says of a step that draws a proposal
DrUpdatesThenAccepts ==
  dr_n_samples' # dr_n_samples =>
    /\ dr_tr'[2].was = dr_M
    /\ dr_M' = dr_tr'[2].M
    /\ dr_pq' = <<dr_tr'[1].pq>>
    /\ dr_p_accept' = dr_tr'[3].p_accept
    /\ dr_accepted' = dr_tr'[4].accepted

\* C14: a proposal computes pq, then updates M with that pq, then computes
\* p_accept from that pq and the updated M, then draws the threshold and
\* accepts iff it is below p_accept; so pq <= M at every evaluation of drs.
C14_UpdateBeforeAcceptance ==
  /\ [][DrUpdatesThenAccepts]_vars
  /\ [](dr_tr # <<>> =>
          /\ [k \in 1..Len(dr_tr) |-> dr_tr[k].op] = <<"pq", "max", "drs", "rand">>
          /\ dr_tr[2].M = Max(dr_tr[2].was, dr_tr[1].pq)
          /\ dr_tr[3].pq = dr_tr[1].pq
          /\ dr_tr[3].M = dr_tr[2].M
          /\ dr_tr[3].pq <= dr_tr[3].M
          /\ dr_tr[3].p_accept = drs(dr_tr[3].pq, dr_tr[3].M)
          /\ dr_tr[4].accepted \in Accepts(dr_tr[3].p_accept))

\* after a calibration pass that found a positive M, a proposal has set a
\* new maximum, and drs was evaluated at pq = M
C14_Witness ==
  /\ dr_pc = "retry"
  /\ dr_tr # <<>>
  /\ dr_tr[2].was > 0
  /\ dr_tr[2].was < dr_tr[2].M
  /\ dr_tr[3].pq = dr_tr[3].M
  /\ dr_M = dr_tr[2].M
  /\ dr_n_samples >= 2

\* every requested image has had a proposal accepted
DrAllAccepted == Len(dr_saved) = NumImages

\* what C15 says of a step: the loop of an image is left only after an
\* accepted proposal, at once, to save that image; after a rejected
\* proposal, and at the start, the only step is another proposal
DrLoopEndsAtAcceptance ==
  /\ dr_saved' # dr_saved =>
       /\ dr_pc = "retry"
       /\ dr_accepted
       /\ dr_saved' = Append(dr_saved, dr_idx)
  /\ (dr_pc = "retry" /\ dr_accepted) =>
       /\ dr_n_samples' = dr_n_samples
       /\ dr_saved' = Append(dr_saved, dr_idx)
       /\ dr_pc' = "gen"
  /\ (dr_pc = "retry" /\ ~dr_accepted) =>
       /\ dr_n_samples' = dr_n_samples + 1
       /\ dr_pc' = "retry"

\* C15: the retry loop of an image ends exactly at its first accepted
\* proposal; nothing but the bound of the model stops it from proposing
\* again after a rejection; the generation pass ends only when every image
\* has had a proposal accepted, and once they all have, it ends.
C15_StopsOnlyWhenAllAccepted ==
  /\ [][DrLoopEndsAtAcceptance]_vars
  /\ []((dr_pc = "retry" /\ ~dr_accepted /\ dr_n_samples < MaxProposals)
          => ENABLED DrPropose)
  /\ [](dr_pc = "done" => DrAllAccepted)
  /\ DrAllAccepted ~> (dr_pc = "done")

\* the pass has ended after rejected proposals: more proposals than images
C15_Witness ==
  /\ dr_pc = "done"
  /\ DrAllAccepted
  /\ dr_n_samples = NumImages + 2
  /\ dr_n_samples = MaxProposals

\* what C16 says of a step: n_samples goes up by one in the steps that
\* draw a proposal and is left alone in all the others, and the step that
\* emits image idx reports (idx + 1) / n_samples with idx + 1 images accepted
DrCountsProposals ==
  /\ IF dr_pc = "retry" /\ ~dr_accepted
     THEN /\ dr_n_samples' = dr_n_samples + 1
          /\ Len(dr_tr') = 4
          /\ dr_tr'[1].pq = dr_pq'[1]
     ELSE dr_n_samples' = dr_n_samples
  /\ dr_saved' # dr_saved =>
       /\ dr_saved' = Append(dr_saved, dr_idx)
       /\ Len(dr_saved') = dr_idx + 1
       /\ dr_idx + 1 <= dr_n_samples'
       /\ dr_rate' = <<dr_idx + 1, dr_n_samples'>>
  /\ dr_saved' = dr_saved => dr_rate' = dr_rate

\* C16: n_samples is incremented once per proposal drawn and by nothing
\* else; when image idx is emitted, idx + 1 images have been accepted,
\* idx + 1 <= n_samples, and the rate reported is (idx + 1) / n_samples,
\* which is in (0, 1].
C16_ProposalCounter ==
  /\ [][DrCountsProposals]_vars
  /\ [](dr_pc \in {"gen", "retry", "done"} => Len(dr_saved) <= dr_n_samples)
  /\ [](dr_rate # None =>
          /\ dr_rate[1] = Len(dr_saved)
          /\ 0 < dr_rate[1]
          /\ dr_rate[1] <= dr_rate[2]
          /\ dr_rate[2] <= dr_n_samples)

\* the second image was emitted after two rejected proposals: rate 2 / 4
C16_Witness ==
  /\ dr_pc = "gen"
  /\ dr_saved = <<0, 1>>
  /\ dr_n_samples = 4
  /\ dr_rate = <<2, 4>>

\* the last proposal had pq * exp(eps_drs) > M, or pq = M, after the update
DrBeyondRange(tr) ==
  \/ tr[3].pq * exp_eps_drs[1] > tr[3].M * exp_eps_drs[2]
  \/ tr[3].pq = tr[3].M

\* what C17 says of a step: a proposal beyond the range is rejected and
\* followed by another proposal, and no image is saved on one
DrRejectsInvalid ==
  /\ (dr_n_samples' # dr_n_samples /\ DrBeyondRange(dr_tr')) =>
       /\ dr_p_accept' = "nan"
       /\ ~dr_accepted'
       /\ dr_pc' = "retry"
       /\ dr_saved' = dr_saved
  /\ dr_saved' # dr_saved =>
       /\ ~DrBeyondRange(dr_tr)
       /\ dr_p_accept \in {"frac", "one"}

\* C17: a proposal with pq * exp(eps_drs) > M after the update of M, which
\* every proposal with pq = M is (one that sets or equals the running
\* maximum, one at the clamp value when M is the clamp value), gets NaN as
\* acceptance probability, fails the comparison and is rejected: no image
\* is ever saved from such a proposal.
C17_InvalidProbabilityRejects ==
  /\ [][DrRejectsInvalid]_vars
  /\ [](dr_tr # <<>> /\ DrBeyondRange(dr_tr) =>
          /\ dr_tr[3].p_accept = "nan"
          /\ ~dr_tr[4].accepted
          /\ ~dr_accepted)

\* M was at the clamp value, and a proposal at the clamp value was rejected
\* on a NaN probability
C17_Witness ==
  /\ dr_pc = "retry"
  /\ dr_tr # <<>>
  /\ dr_tr[2].was = PqClamp
  /\ dr_tr[3].pq = PqClamp
  /\ dr_tr[3].M = PqClamp
  /\ dr_p_accept = "nan"
  /\ ~dr_accepted
  /\ dr_n_samples >= 2

(***************************************************************************)
(* The shapes of images and latents.                                       *)
(***************************************************************************)
RECURSIVE SqueezeShapes(_, _, _)
\* the shapes that n squeezes in a row are applied to, from a batch of the
\* given shape on; the list stops at a squeeze that raises
SqueezeShapes(shape, n, reverse) ==
  IF n = 0 \/ shape = <<>> THEN <<>>
  ELSE <<shape>> \o SqueezeShapes(squeeze(Meta(shape), reverse).shape, n - 1, reverse)

\* the squeezes of a trace, in order
SqueezeSteps(tr) == SelectSeq(tr, LAMBDA o : o.op = "squeeze")

\* C18: a Glow of num_levels = k - 1 levels, called forward on a batch of
\* shape (B, C, S, S) with S = 2^k, squeezes exactly k times, each time a
\* batch of even height and width, and returns shape (B, C * S * S, 1, 1);
\* called in reverse on a latent of shape (B, C * S * S, 1, 1) it squeezes
\* in reverse exactly k times, each time a batch whose channel count is
\* divisible by 4, and returns shape (B, C, S, S); and the other direction
\* then leads back to the shape it started from.
C18_LatentShape ==
  (gl_fn = "Glow" /\ gl_pc \in {"called", "back"}) =>
    LET k == GlLevels + 1
        S == TwoTo(k)
        B == gl_in.x.shape[1]
        image == <<B, InChannels, S, S>>
        latent == <<B, InChannels * S * S, 1, 1>>
        To(reverse) == IF reverse THEN image ELSE latent
        Fits(tr, from, reverse) ==
          /\ Len(SqueezeSteps(tr)) = k
          /\ \A j \in 1..k : SqueezeSteps(tr)[j].reverse = reverse
          /\ Len(SqueezeShapes(from, k, reverse)) = k
          /\ \A j \in 1..k :
               IF reverse THEN SqueezeShapes(from, k, reverse)[j][2] % 4 = 0
               ELSE /\ SqueezeShapes(from, k, reverse)[j][3] % 2 = 0
                    /\ SqueezeShapes(from, k, reverse)[j][4] % 2 = 0
          /\ squeeze(Meta(SqueezeShapes(from, k, reverse)[k]), reverse).shape
               = To(reverse)
    IN gl_in.x.shape = To(~gl_in.reverse) =>
         /\ ~IsErr(gl_out.x)
         /\ gl_out.x.shape = To(gl_in.reverse)
         /\ Fits(gl_out.tr, gl_in.x.shape, gl_in.reverse)
         /\ gl_pc = "back" =>
              /\ gl_back.x.shape = gl_in.x.shape
              /\ Fits(gl_back.tr, gl_out.x.shape, ~gl_in.reverse)

\* a latent of 8 samples for images of side 16 went through a model of 3
\* levels in reverse, and the images went forward again
C18_Witness ==
  /\ gl_fn = "Glow"
  /\ gl_pc = "back"
  /\ gl_in.reverse
  /\ GlLevels = 3
  /\ GlSteps = 1
  /\ gl_in.x.shape = <<8, 256, 1, 1>>
  /\ gl_out.x.shape = <<8, 1, 16, 16>>
  /\ gl_back.x.shape = <<8, 256, 1, 1>>
  /\ Squeezes(gl_out.tr) = 4
  /\ Squeezes(gl_back.tr) = 4

====
